---------------------------- MODULE Spec2Model ----------------------------
(***************************************************************************)
(* Ask-Reddit-AI: the content-acquisition and grounding pipeline.          *)
(*                                                                         *)
(*   - RedditOAuthService.getAccessToken   (token cache, one per route)    *)
(*   - RedditOAuthService.fetchSubredditData / fetchTopSubmissions /       *)
(*     fetchComments                        (snapshot acquisition)         *)
(*   - extractRedditContent / cleanRedditText (prompt text)                *)
(*   - POST /api/ask-question, POST /api/reddit-data (orchestration and    *)
(*     error mapping)                                                      *)
(*                                                                         *)
(* Every async function is cut at its awaits: one action runs from one     *)
(* resumption to the next suspension, the only place where the             *)
(* single-threaded runtime lets another request run.  A state holds a      *)
(* string by a key; Text gives its characters, so that length tests,       *)
(* substring tests and the cleaning rules are computed on the characters.  *)
(* Time is counted in minutes.                                             *)
(***************************************************************************)
EXTENDS Integers, Sequences, FiniteSets, TLC

---------------------------------------------------------------------------
(* Bounds of the model *)

\* concurrent callers of getAccessToken in SpecToken
NumCallers == 2
\* getAccessToken calls started in one behaviour of SpecToken
MaxCalls == 3
\* multiples of the cache window that the clock reaches
MaxPeriods == 2
\* requests served one after the other in Spec
MaxRequests == 2
\* submissions in one upstream listing (SpecFetch)
MaxPosts == 3
\* comment nodes the upstream returns during one request (SpecFetch)
MaxComments == 3
\* SpecVolume: children of the long listing of submissions
MaxSubmissions == 12
\* SpecVolume: children of the long listing of comments
MaxListing == 11
\* SpecPage: requests the page sends
MaxSubmits == 2
\* SpecHistory: saves of answers in one browser
MaxSaves == 52

---------------------------------------------------------------------------
(* Text *)

Rep(c, n) == [i \in 1..n |-> c]

Min(S) == CHOOSE x \in S : \A y \in S : x <= y

Letters ==
    { "a", "b", "c", "d", "e", "f", "g", "h", "i", "j", "k", "l", "m",
      "n", "o", "p", "q", "r", "s", "t", "u", "v", "w", "x", "y", "z",
      "A", "B", "C", "D", "E", "F", "G", "H", "I", "J", "K", "L", "M",
      "N", "O", "P", "Q", "R", "S", "T", "U", "V", "W", "X", "Y", "Z" }

Digits == { "0", "1", "2", "3", "4", "5", "6", "7", "8", "9" }

\* [a-zA-Z0-9_]
WordChars == Letters \cup Digits \cup { "_" }

\* \s
IsSpace(c) == c \in { " ", "\n", "\t", "\r" }

\* what `.` does not match
IsLineEnd(c) == c \in { "\n", "\r" }

\* s.substring(i - 1).startsWith(d)
StartsWithAt(s, i, d) ==
    /\ i + Len(d) - 1 <= Len(s)
    /\ SubSeq(s, i, i + Len(d) - 1) = d

\* String.prototype.includes
Includes(s, t) ==
    \E i \in 1..(Len(s) - Len(t) + 1) : StartsWithAt(s, i, t)

\* String.prototype.trim
Trim(s) ==
    IF \A i \in 1..Len(s) : IsSpace(s[i]) THEN << >>
    ELSE SubSeq(s,
                CHOOSE i \in 1..Len(s) :
                    ~IsSpace(s[i]) /\ \A j \in 1..(i - 1) : IsSpace(s[j]),
                CHOOSE i \in 1..Len(s) :
                    ~IsSpace(s[i]) /\ \A j \in (i + 1)..Len(s) : IsSpace(s[j]))

DigitChar(d) ==
    CASE d = 0 -> "0" [] d = 1 -> "1" [] d = 2 -> "2" [] d = 3 -> "3" [] d = 4 -> "4"
      [] d = 5 -> "5" [] d = 6 -> "6" [] d = 7 -> "7" [] d = 8 -> "8" [] d = 9 -> "9"

RECURSIVE NatToText(_)
NatToText(n) ==
    IF n < 10 THEN << DigitChar(n) >>
    ELSE NatToText(n \div 10) \o << DigitChar(n % 10) >>

\* `${n}` for an integer n
NumToText(n) == IF n < 0 THEN << "-" >> \o NatToText(-n) ELSE NatToText(n)

\* Array.prototype.join
RECURSIVE Join(_, _)
Join(parts, sep) ==
    IF parts = << >> THEN << >>
    ELSE IF Len(parts) = 1 THEN parts[1]
    ELSE parts[1] \o sep \o Join(Tail(parts), sep)

\* Array.prototype.slice(0, n)
Slice(s, n) == SubSeq(s, 1, IF n < Len(s) THEN n ELSE Len(s))

---------------------------------------------------------------------------
(* Strings *)

\* The characters of a string.  A state holds a string by its key, which is
\* the string itself, or a letter and a length for the long ones ("b80" is 80
\* times the letter b); the literals of the program are written as they are in
\* its text.
Text(k) ==
    CASE k = "" -> << >>
      [] k = "tech" ->
        << "t", "e", "c", "h" >>
      [] k = "bad name" ->
        << "b", "a", "d", " ", "n", "a", "m", "e" >>
      [] k = "hi" ->
        << "h", "i" >>
      [] k = "    hi    " ->
        << " ", " ", " ", " ", "h", "i", " ", " ", " ", " " >>
      [] k = "What is new?" ->
        << "W", "h", "a", "t", " ", "i", "s", " ", "n", "e", "w", "?" >>
      [] k = "Title" ->
        << "T", "i", "t", "l", "e" >>
      [] k = "[deleted]" ->
        << "[", "d", "e", "l", "e", "t", "e", "d", "]" >>
      [] k = "[removed]" ->
        << "[", "r", "e", "m", "o", "v", "e", "d", "]" >>
      [] k = "alice" ->
        << "a", "l", "i", "c", "e" >>
      [] k = "You exceeded your current quota" ->
        << "Y", "o", "u", " ", "e", "x", "c", "e", "e", "d", "e", "d", " ", "y", "o", "u",
          "r", " ", "c", "u", "r", "r", "e", "n", "t", " ", "q", "u", "o", "t", "a" >>
      [] k = "Incorrect API key provided" ->
        << "I", "n", "c", "o", "r", "r", "e", "c", "t", " ", "A", "P", "I", " ", "k", "e",
          "y", " ", "p", "r", "o", "v", "i", "d", "e", "d" >>
      [] k = "The server had an error" ->
        << "T", "h", "e", " ", "s", "e", "r", "v", "e", "r", " ", "h", "a", "d", " ", "a",
          "n", " ", "e", "r", "r", "o", "r" >>
      [] k = "An answer" ->
        << "A", "n", " ", "a", "n", "s", "w", "e", "r" >>
      [] k = "quota" ->
        << "q", "u", "o", "t", "a" >>
      [] k = "API key" ->
        << "A", "P", "I", " ", "k", "e", "y" >>
      [] k = "not found" ->
        << "n", "o", "t", " ", "f", "o", "u", "n", "d" >>
      [] k = "private" ->
        << "p", "r", "i", "v", "a", "t", "e" >>
      [] k = "banned" ->
        << "b", "a", "n", "n", "e", "d" >>
      [] k = "credentials" ->
        << "c", "r", "e", "d", "e", "n", "t", "i", "a", "l", "s" >>
      [] k = "OpenAI" ->
        << "O", "p", "e", "n", "A", "I" >>
      [] k = "Subreddit r/" ->
        << "S", "u", "b", "r", "e", "d", "d", "i", "t", " ", "r", "/" >>
      [] k = " not found" ->
        << " ", "n", "o", "t", " ", "f", "o", "u", "n", "d" >>
      [] k = " is private or banned" ->
        << " ", "i", "s", " ", "p", "r", "i", "v", "a", "t", "e", " ", "o", "r", " ", "b",
          "a", "n", "n", "e", "d" >>
      [] k = "Reddit API error: " ->
        << "R", "e", "d", "d", "i", "t", " ", "A", "P", "I", " ", "e", "r", "r", "o", "r",
          ":", " " >>
      [] k = "No data received from r/" ->
        << "N", "o", " ", "d", "a", "t", "a", " ", "r", "e", "c", "e", "i", "v", "e", "d",
          " ", "f", "r", "o", "m", " ", "r", "/" >>
      [] k = "Failed to authenticate with Reddit API: " ->
        << "F", "a", "i", "l", "e", "d", " ", "t", "o", " ", "a", "u", "t", "h", "e", "n",
          "t", "i", "c", "a", "t", "e", " ", "w", "i", "t", "h", " ", "R", "e", "d", "d",
          "i", "t", " ", "A", "P", "I", ":", " " >>
      [] k = "Reddit OAuth failed: " ->
        << "R", "e", "d", "d", "i", "t", " ", "O", "A", "u", "t", "h", " ", "f", "a", "i",
          "l", "e", "d", ":", " " >>
      [] k = "No access token received from Reddit API" ->
        << "N", "o", " ", "a", "c", "c", "e", "s", "s", " ", "t", "o", "k", "e", "n", " ",
          "r", "e", "c", "e", "i", "v", "e", "d", " ", "f", "r", "o", "m", " ", "R", "e",
          "d", "d", "i", "t", " ", "A", "P", "I" >>
      [] k = "fetch failed" ->
        << "f", "e", "t", "c", "h", " ", "f", "a", "i", "l", "e", "d" >>
      [] k = "Subreddit and question are required" ->
        << "S", "u", "b", "r", "e", "d", "d", "i", "t", " ", "a", "n", "d", " ", "q", "u",
          "e", "s", "t", "i", "o", "n", " ", "a", "r", "e", " ", "r", "e", "q", "u", "i",
          "r", "e", "d" >>
      [] k = "Subreddit name is required" ->
        << "S", "u", "b", "r", "e", "d", "d", "i", "t", " ", "n", "a", "m", "e", " ", "i",
          "s", " ", "r", "e", "q", "u", "i", "r", "e", "d" >>
      [] k = "Invalid model specified" ->
        << "I", "n", "v", "a", "l", "i", "d", " ", "m", "o", "d", "e", "l", " ", "s", "p",
          "e", "c", "i", "f", "i", "e", "d" >>
      [] k = "No recent content available for this subreddit" ->
        << "N", "o", " ", "r", "e", "c", "e", "n", "t", " ", "c", "o", "n", "t", "e", "n",
          "t", " ", "a", "v", "a", "i", "l", "a", "b", "l", "e", " ", "f", "o", "r", " ",
          "t", "h", "i", "s", " ", "s", "u", "b", "r", "e", "d", "d", "i", "t" >>
      [] k = "Insufficient recent content in this subreddit" ->
        << "I", "n", "s", "u", "f", "f", "i", "c", "i", "e", "n", "t", " ", "r", "e", "c",
          "e", "n", "t", " ", "c", "o", "n", "t", "e", "n", "t", " ", "i", "n", " ", "t",
          "h", "i", "s", " ", "s", "u", "b", "r", "e", "d", "d", "i", "t" >>
      [] k = "Failed to generate answer. Please try again." ->
        << "F", "a", "i", "l", "e", "d", " ", "t", "o", " ", "g", "e", "n", "e", "r", "a",
          "t", "e", " ", "a", "n", "s", "w", "e", "r", ".", " ", "P", "l", "e", "a", "s",
          "e", " ", "t", "r", "y", " ", "a", "g", "a", "i", "n", "." >>
      [] k = "Something went wrong. Please try again." ->
        << "S", "o", "m", "e", "t", "h", "i", "n", "g", " ", "w", "e", "n", "t", " ", "w",
          "r", "o", "n", "g", ".", " ", "P", "l", "e", "a", "s", "e", " ", "t", "r", "y",
          " ", "a", "g", "a", "i", "n", "." >>
      [] k = "[URL]" ->
        << "[", "U", "R", "L", "]" >>
      [] k = "[SUBREDDIT]" ->
        << "[", "S", "U", "B", "R", "E", "D", "D", "I", "T", "]" >>
      [] k = "[USER]" ->
        << "[", "U", "S", "E", "R", "]" >>
      [] k = "POST (" ->
        << "P", "O", "S", "T", " ", "(" >>
      [] k = "COMMENT (" ->
        << "C", "O", "M", "M", "E", "N", "T", " ", "(" >>
      [] k = " upvotes): " ->
        << " ", "u", "p", "v", "o", "t", "e", "s", ")", ":", " " >>
      [] k = "\n\n---\n\n" ->
        << "\n", "\n", "-", "-", "-", "\n", "\n" >>
      [] k = "\n\n===POSTS_END===\n\n" ->
        << "\n", "\n", "=", "=", "=", "P", "O", "S", "T", "S", "_", "E", "N", "D", "=", "=",
          "=", "\n", "\n" >>
      [] k = "Not Found" ->
        << "N", "o", "t", " ", "F", "o", "u", "n", "d" >>
      [] k = "Forbidden" ->
        << "F", "o", "r", "b", "i", "d", "d", "e", "n" >>
      [] k = "Unauthorized" ->
        << "U", "n", "a", "u", "t", "h", "o", "r", "i", "z", "e", "d" >>
      [] k = "Too Many Requests" ->
        << "T", "o", "o", " ", "M", "a", "n", "y", " ", "R", "e", "q", "u", "e", "s", "t",
          "s" >>
      [] k = "Internal Server Error" ->
        << "I", "n", "t", "e", "r", "n", "a", "l", " ", "S", "e", "r", "v", "e", "r", " ",
          "E", "r", "r", "o", "r" >>
      [] k = "http://" ->
        << "h", "t", "t", "p", ":", "/", "/" >>
      [] k = "https://" ->
        << "h", "t", "t", "p", "s", ":", "/", "/" >>
      [] k = "/r/" ->
        << "/", "r", "/" >>
      [] k = "/u/" ->
        << "/", "u", "/" >>
      [] k = "Error fetching comments: " ->
        << "E", "r", "r", "o", "r", " ", "f", "e", "t", "c", "h", "i", "n", "g", " ", "c",
          "o", "m", "m", "e", "n", "t", "s", ":", " " >>
      [] k = "AskReddit" ->
        << "A", "s", "k", "R", "e", "d", "d", "i", "t" >>
      [] k = "a51" -> Rep("a", 51)
      [] k = "q501" -> Rep("q", 501)
      [] k = "b50" -> Rep("b", 50)
      [] k = "b51" -> Rep("b", 51)
      [] k = "b80" -> Rep("b", 80)
      [] k = "c30" -> Rep("c", 30)
      [] k = "c31" -> Rep("c", 31)
      [] k = "d50" -> Rep("d", 50)
      [] k = "e30" -> Rep("e", 30)


---------------------------------------------------------------------------
(* cleanRedditText *)

\* the grave accent, which a string of this notation cannot hold
BackTick == "<grave accent>"

\* where a pair opened by the delimiter d at j may close: d again, with no
\* line terminator in between (`.` matches none)
Closes(s, d, j) ==
    { c \in (j + Len(d))..Len(s) :
        /\ StartsWithAt(s, c, d)
        /\ \A k \in (j + Len(d))..(c - 1) : ~IsLineEnd(s[k]) }

\* s.replace(/D(.*?)D/g, '$1') for a delimiter D, from position i on
RECURSIVE StripPairs(_, _, _)
StripPairs(s, d, i) ==
    LET opens == { j \in i..Len(s) : StartsWithAt(s, j, d) /\ Closes(s, d, j) # {} }
    IN  IF opens = {} THEN SubSeq(s, i, Len(s))
        ELSE LET j == Min(opens)
                 c == Min(Closes(s, d, j))
             IN  SubSeq(s, i, j - 1) \o SubSeq(s, j + Len(d), c - 1)
                     \o StripPairs(s, d, c + Len(d))

\* the characters a run may hold: [^\s] or [a-zA-Z0-9_]
InRun(class, c) == IF class = "nonspace" THEN ~IsSpace(c) ELSE c \in WordChars

\* end of the longest run of the class that starts at i
RunEnd(s, class, i) ==
    Min({ j \in i..(Len(s) + 1) : j > Len(s) \/ ~InRun(class, s[j]) })

\* the prefixes that, at j, are followed by at least one character of the class
PrefixesAt(s, prefixes, class, j) ==
    { d \in prefixes :
        /\ StartsWithAt(s, j, d)
        /\ j + Len(d) <= Len(s)
        /\ InRun(class, s[j + Len(d)]) }

\* s.replace(/P[class]+/g, repl) for the prefixes P, from position i on
RECURSIVE ReplaceRuns(_, _, _, _, _)
ReplaceRuns(s, prefixes, class, repl, i) ==
    LET hits == { j \in i..Len(s) : PrefixesAt(s, prefixes, class, j) # {} }
    IN  IF hits = {} THEN SubSeq(s, i, Len(s))
        ELSE LET j == Min(hits)
                 d == CHOOSE x \in PrefixesAt(s, prefixes, class, j) : TRUE
             IN  SubSeq(s, i, j - 1) \o repl
                     \o ReplaceRuns(s, prefixes, class, repl, RunEnd(s, class, j + Len(d)))

\* end of the longest run of line feeds / of white space that starts at i
FeedEnd(s, i) == Min({ j \in i..(Len(s) + 1) : j > Len(s) \/ s[j] # "\n" })

SpaceEnd(s, i) == Min({ j \in i..(Len(s) + 1) : j > Len(s) \/ ~IsSpace(s[j]) })

\* s.replace(/\n{3,}/g, '\n\n')
RECURSIVE CollapseFeeds(_, _)
CollapseFeeds(s, i) ==
    LET runs == { j \in i..Len(s) : s[j] = "\n" /\ FeedEnd(s, j) - j >= 3 }
    IN  IF runs = {} THEN SubSeq(s, i, Len(s))
        ELSE SubSeq(s, i, Min(runs) - 1) \o << "\n", "\n" >>
                 \o CollapseFeeds(s, FeedEnd(s, Min(runs)))

\* s.replace(/\s{2,}/g, ' ')
RECURSIVE CollapseSpaces(_, _)
CollapseSpaces(s, i) ==
    LET runs == { j \in i..Len(s) : IsSpace(s[j]) /\ SpaceEnd(s, j) - j >= 2 }
    IN  IF runs = {} THEN SubSeq(s, i, Len(s))
        ELSE SubSeq(s, i, Min(runs) - 1) \o << " " >>
                 \o CollapseSpaces(s, SpaceEnd(s, Min(runs)))

cleanRedditText(text) ==
    LET s1 == StripPairs(text, << "*", "*" >>, 1)
        s2 == StripPairs(s1, << "*" >>, 1)
        s3 == StripPairs(s2, << "~", "~" >>, 1)
        s4 == StripPairs(s3, << BackTick >>, 1)
        s5 == ReplaceRuns(s4, { Text("http://"), Text("https://") }, "nonspace",
                          Text("[URL]"), 1)
        s6 == ReplaceRuns(s5, { Text("/r/") }, "word", Text("[SUBREDDIT]"), 1)
        s7 == ReplaceRuns(s6, { Text("/u/") }, "word", Text("[USER]"), 1)
        s8 == CollapseFeeds(s7, 1)
        s9 == CollapseSpaces(s8, 1)
    IN  Trim(s9)


---------------------------------------------------------------------------
(* Values *)

\* `private accessToken: string | null = null`; an issued token is a number >= 1
NoToken == 0
\* `private tokenExpiry: Date | null = null`
NoExpiry == -1
\* an error object that carries no `status` field
NoStatus == 0
\* `completion.usage?.total_tokens` of a completion without usage
NoUsage == -1
\* "set expiry to 50 minutes to be safe": 50 * 60 * 1000 ms, in minutes
TokenTTL == 50
\* `if (posts.length <= 5)`: the posts whose comments are fetched
TopPosts == 5
\* `this.fetchComments(post.id, 10)`
CommentLimit == 10
\* `.slice(0, 10) // Limit to top 10 posts`
PromptPosts == 10
\* `.slice(0, 15) // Limit to top 15 comments`
PromptComments == 15
\* `post.selftext.length > 50`
MinPostLength == 50
\* `comment.body.length > 30`
MinCommentLength == 30
\* `redditContent.length < 100`
MinContentLength == 100
\* CONFIG.REDDIT.DEFAULT_LIMIT, and the limit POST /api/ask-question passes
DefaultLimit == 25
\* CONFIG.REDDIT.MAX_LIMIT
MaxLimit == 100
\* VALIDATION.SUBREDDIT.MIN_LENGTH, MAX_LENGTH
SubredditMinLength == 1
SubredditMaxLength == 50
\* VALIDATION.QUESTION.MIN_LENGTH, MAX_LENGTH
QuestionMinLength == 5
QuestionMaxLength == 500
\* `confidence: 0.85`, in hundredths
Confidence == 85

\* the two route modules, each with its own `redditService` singleton:
\* "ask" is /api/ask-question, "data" is /api/reddit-data
Services == {"ask", "data"}

\* a default that the route does not allow
DefaultModelUnlisted == "gpt-4"
\* CONFIG.OPENAI.DEFAULT_MODEL
DefaultModel == "gpt-4o-mini"
\* `['gpt-4o-mini', 'gpt-3.5-turbo'].includes(model)`
AllowedModels == {"gpt-4o-mini", "gpt-3.5-turbo"}

Callers == 1..NumCallers

\* An error object.  tmpl, arg and num give its message (see Message); code
\* and status are the fields of that name, "none" / NoStatus when absent.
MkError(tmpl, arg, num) ==
    [tmpl |-> tmpl, arg |-> arg, num |-> num, code |-> "none", status |-> NoStatus]

NoError == MkError("unset", "", 0)

\* reason phrase of an upstream status (response.statusText)
StatusText(st) ==
    CASE st = 401 -> Text("Unauthorized")
      [] st = 403 -> Text("Forbidden")
      [] st = 404 -> Text("Not Found")
      [] st = 429 -> Text("Too Many Requests")
      [] OTHER    -> Text("Internal Server Error")

\* error.message, from the template literal that built it
Message(e) ==
    LET failed == Text("Failed to authenticate with Reddit API: ")
    IN  CASE e.tmpl = "not_found" ->
               Text("Subreddit r/") \o Text(e.arg) \o Text(" not found")
          [] e.tmpl = "private" ->
               Text("Subreddit r/") \o Text(e.arg) \o Text(" is private or banned")
          [] e.tmpl = "reddit_api" ->
               Text("Reddit API error: ") \o NumToText(e.num) \o << " " >> \o StatusText(e.num)
          [] e.tmpl = "no_data" ->
               Text("No data received from r/") \o Text(e.arg)
          [] e.tmpl = "auth_oauth" ->
               failed \o Text("Reddit OAuth failed: ") \o NumToText(e.num) \o << " " >>
                   \o StatusText(e.num)
          [] e.tmpl = "auth_notoken" ->
               failed \o Text("No access token received from Reddit API")
          [] e.tmpl = "auth_fetch" -> failed \o Text("fetch failed")
          [] e.tmpl = "fetch" -> Text("fetch failed")
          [] e.tmpl = "comments" -> Text("Error fetching comments: ") \o NumToText(e.num)
          [] e.tmpl = "literal" -> Text(e.arg)
          [] OTHER -> << >>

\* `'message' in error && typeof error.message === 'string'`
HasMessage(e) == e.tmpl \notin {"unset", "no_message"}

\* what the token endpoint may answer: a token, a success body without the
\* access_token field, a non-success status, or no answer at all (fetch rejects)
TokenResponses ==
    { [kind |-> "token",   status |-> 200],
      [kind |-> "notoken", status |-> 200],
      [kind |-> "http",    status |-> 401],
      [kind |-> "http",    status |-> 429],
      [kind |-> "neterr",  status |-> NoStatus] }

\* the instants at which the clock is read: one minute before, at, and one
\* minute after each multiple of the cache window
Instants ==
    { t \in 0..(MaxPeriods * TokenTTL + 1) :
        \E k \in 0..MaxPeriods : t \in {k * TokenTTL - 1, k * TokenTTL, k * TokenTTL + 1} }

\* a network request, as the log of a call records it
\* kind, the forum or post or model it names, the `t` parameter, the limit or size
Request(kind, arg, t, n) == [kind |-> kind, arg |-> arg, t |-> t, n |-> n]

VARIABLES
    now,          \* Date.now(), minutes
    accessToken,  \* [service -> token]       this.accessToken
    tokenExpiry,  \* [service -> time]        this.tokenExpiry
    issued,       \* tokens handed out by the token endpoint so far
    pc,           \* [process -> where its async call is suspended]
    svc,          \* [process -> the route (and so the service) it runs]
    site,         \* [process -> the call site awaiting getAccessToken]
    tok,          \* [process -> value returned by getAccessToken]
    thrown,       \* [process -> error thrown to the caller]
    calls,        \* [process -> network requests issued by the current call]
    started,      \* calls or requests started so far
    req,          \* [process -> the request body, defaults applied (and the
                  \*   model as the body gave it)]
    children,     \* [process -> data.data.children.slice(0, limit)]
    idx,          \* [process -> position of the loop over children]
    posts,        \* [process -> the posts array, in the order of the pushes]
    allComments,  \* [process -> the allComments array, in the order of the pushes]
    fed,          \* [process -> comment nodes the upstream returned so far]
    redditData,   \* [process -> the value the fetch returned]
    out,          \* [process -> the response envelope]
    \* history of the token cache, kept for the properties
    lastStore,    \* [service -> the last successful write: token and time]
    resp,         \* [process -> the token endpoint's answer to the current call]
    seen,         \* [process -> what the cache test of the current call met: the
                  \*   last successful write, and the clock inside or outside its
                  \*   window]
    \* history of the fetch, kept for the properties
    upstream,     \* [process -> the answers of the current call: kind and
                  \*   status of the one to the submissions request, and the
                  \*   usage the completion reported]
    \* the page (HomePage) in a browser
    appState,     \* the state of the component
    storage,      \* the saved answers in localStorage, [] when there are none
    page,         \* where handleSubmitQuestion is suspended, the response it
                  \*   reads, the last toast and the clock of the browser
    posted        \* the bodies of the requests the page has sent

tokenVars == << now, accessToken, tokenExpiry, issued, lastStore >>
callVars == << pc, svc, site, tok, thrown, calls, started, resp, seen >>
fetchVars == << req, children, idx, posts, allComments, fed, redditData, out, upstream >>
pageVars == << appState, storage, page, posted >>
vars == << tokenVars, callVars, fetchVars, pageVars >>

NoStore == [token |-> NoToken, at |-> NoExpiry]
NoResp == [kind |-> "none", status |-> NoStatus, token |-> NoToken]
NoSeen == [token |-> NoToken, window |-> "unset"]
NoReq ==
    [subreddit |-> "", question |-> "", model |-> "", timeframe |-> "", limit |-> 0,
     given |-> ""]
NoData == [kind |-> "none"]
NoOut == [success |-> FALSE, status |-> NoStatus, error |-> "unset", data |-> NoData]
NoUpstream == [kind |-> "none", status |-> NoStatus, usage |-> NoUsage]
NoSnapshot == [posts |-> << >>, comments |-> << >>, subreddit |-> "", fetched |-> FALSE]

\* useState<AppState>({...}) of HomePage
InitialAppState ==
    [selectedSubreddit |-> "AskReddit", customSubreddit |-> "", question |-> "",
     isLoading |-> FALSE, currentAnswer |-> NoData, savedAnswers |-> << >>,
     selectedModel |-> "gpt-4"]

\* the page before it is mounted
NoPage ==
    [pc |-> "unmounted", reply |-> [kind |-> "none", body |-> NoOut], toast |-> "none",
     clock |-> 0]

---------------------------------------------------------------------------
(* RedditOAuthService.getAccessToken *)

\* a variant of the cache test that does not look at the clock
TokenValidIgnoringClock(s) ==
    /\ accessToken[s] # NoToken
    /\ tokenExpiry[s] # NoExpiry

\* `this.accessToken && this.tokenExpiry && new Date() < this.tokenExpiry`
TokenValid(s) ==
    /\ accessToken[s] # NoToken
    /\ tokenExpiry[s] # NoExpiry
    /\ now < tokenExpiry[s]

\* `data.access_token` of a token endpoint answer; t is the token it issues
AccessTokenField(r, t) == IF r.kind = "token" THEN t ELSE NoToken

\* a variant whose message drops the cause
TokenFailureBare(r) == MkError("auth_fetch", "", 0)

\* the error the catch block rethrows: `Failed to authenticate ...: ${error.message}`
TokenFailure(r) ==
    CASE r.kind = "http"    -> MkError("auth_oauth", "", r.status)
      [] r.kind = "notoken" -> MkError("auth_notoken", "", 0)
      [] OTHER              -> MkError("auth_fetch", "", 0)

\* up to the first await: the cache test, and the token request when it fails
getAccessToken_begin(p) ==
    /\ pc[p] = "getAccessToken"
    /\ seen' = [seen EXCEPT ![p] =
            [token  |-> lastStore[svc[p]].token,
             window |-> IF lastStore[svc[p]] = NoStore THEN "never"
                        ELSE IF now < lastStore[svc[p]].at + TokenTTL THEN "inside"
                        ELSE "outside"]]
    /\ IF TokenValid(svc[p])
       THEN /\ tok' = [tok EXCEPT ![p] = accessToken[svc[p]]]
            /\ pc' = [pc EXCEPT ![p] = "tokenReturned"]
            /\ calls' = calls
       ELSE /\ calls' = [calls EXCEPT ![p] = Append(@, Request("token", "", "", 0))]
            /\ pc' = [pc EXCEPT ![p] = "awaitToken"]
            /\ tok' = tok
    /\ UNCHANGED << tokenVars, svc, site, thrown, started, resp, fetchVars >>
    /\ UNCHANGED pageVars

\* from the token endpoint's answer to the return or the rethrow
getAccessToken_response(p) ==
    /\ pc[p] = "awaitToken"
    /\ \E r \in TokenResponses :
        LET s == svc[p]
            t == issued + 1
        IN  /\ resp' = [resp EXCEPT ![p] =
                    [kind |-> r.kind, status |-> r.status, token |-> AccessTokenField(r, t)]]
            /\ IF r.kind \in {"http", "neterr"}
               THEN \* `!response.ok`, or fetch rejected: nothing is written
                    /\ thrown' = [thrown EXCEPT ![p] = TokenFailure(r)]
                    /\ pc' = [pc EXCEPT ![p] = "tokenThrew"]
                    /\ UNCHANGED << accessToken, tokenExpiry, issued, lastStore, tok >>
               ELSE \* `this.accessToken = data.access_token` comes before the test
                    /\ accessToken' = [accessToken EXCEPT ![s] = AccessTokenField(r, t)]
                    /\ IF accessToken'[s] = NoToken
                       THEN /\ thrown' = [thrown EXCEPT ![p] = TokenFailure(r)]
                            /\ pc' = [pc EXCEPT ![p] = "tokenThrew"]
                            /\ UNCHANGED << tokenExpiry, issued, lastStore, tok >>
                       ELSE /\ tokenExpiry' = [tokenExpiry EXCEPT ![s] = now + TokenTTL]
                            /\ issued' = t
                            /\ lastStore' = [lastStore EXCEPT ![s] = [token |-> t, at |-> now]]
                            /\ tok' = [tok EXCEPT ![p] = accessToken'[s]]
                            /\ pc' = [pc EXCEPT ![p] = "tokenReturned"]
                            /\ thrown' = thrown
    /\ UNCHANGED << now, svc, site, calls, started, seen, fetchVars >>
    /\ UNCHANGED pageVars

---------------------------------------------------------------------------
(* A caller of getAccessToken: `const accessToken = await this.getAccessToken()` *)

CallGetToken(p, s) ==
    /\ pc[p] = "idle"
    /\ started < MaxCalls
    /\ svc' = [svc EXCEPT ![p] = s]
    /\ site' = [site EXCEPT ![p] = "caller"]
    /\ pc' = [pc EXCEPT ![p] = "getAccessToken"]
    /\ started' = started + 1
    /\ UNCHANGED << tokenVars, tok, thrown, calls, resp, seen, fetchVars >>
    /\ UNCHANGED pageVars

\* the caller resumes with the token, or with the error
CallerResumes(p) ==
    /\ pc[p] \in {"tokenReturned", "tokenThrew"}
    /\ site[p] = "caller"
    /\ pc' = [pc EXCEPT ![p] = "idle"]
    /\ calls' = [calls EXCEPT ![p] = << >>]
    /\ tok' = [tok EXCEPT ![p] = NoToken]
    /\ thrown' = [thrown EXCEPT ![p] = NoError]
    /\ resp' = [resp EXCEPT ![p] = NoResp]
    /\ seen' = [seen EXCEPT ![p] = NoSeen]
    /\ UNCHANGED << tokenVars, svc, site, started, fetchVars >>
    /\ UNCHANGED pageVars

\* the clock moves on to one of the given instants
Tick(Times) ==
    /\ \E t \in Times :
        /\ t > now
        /\ now' = t
    /\ UNCHANGED << accessToken, tokenExpiry, issued, lastStore, callVars, fetchVars >>
    /\ UNCHANGED pageVars

InitOf(procs, Stored) ==
    /\ now = 0
    /\ accessToken = [s \in Services |-> NoToken]
    /\ tokenExpiry = [s \in Services |-> NoExpiry]
    /\ issued = 0
    /\ lastStore = [s \in Services |-> NoStore]
    /\ pc = [p \in procs |-> "idle"]
    /\ svc = [p \in procs |-> "ask"]
    /\ site = [p \in procs |-> "caller"]
    /\ tok = [p \in procs |-> NoToken]
    /\ thrown = [p \in procs |-> NoError]
    /\ calls = [p \in procs |-> << >>]
    /\ started = 0
    /\ resp = [p \in procs |-> NoResp]
    /\ seen = [p \in procs |-> NoSeen]
    /\ req = [p \in procs |-> NoReq]
    /\ children = [p \in procs |-> << >>]
    /\ idx = [p \in procs |-> 0]
    /\ posts = [p \in procs |-> << >>]
    /\ allComments = [p \in procs |-> << >>]
    /\ fed = [p \in procs |-> 0]
    /\ redditData = [p \in procs |-> NoSnapshot]
    /\ out = [p \in procs |-> NoOut]
    /\ upstream = [p \in procs |-> NoUpstream]
    /\ appState = InitialAppState
    /\ storage \in Stored
    /\ page = [NoPage EXCEPT !.clock = Len(storage)]
    /\ posted = << >>

InitToken == InitOf(Callers, {<< >>})

NextToken ==
    \/ Tick(Instants)
    \/ \E p \in Callers : CallGetToken(p, "ask")
    \/ \E p \in Callers : getAccessToken_begin(p)
    \/ \E p \in Callers : getAccessToken_response(p)
    \/ \E p \in Callers : CallerResumes(p)

\* Concurrent calls of getAccessToken on the singleton of the ask-question
\* route, with the clock moving between any two steps.
SpecToken == InitToken /\ [][NextToken]_vars

---------------------------------------------------------------------------
(* Validation rules (lib/utils.ts); only HomePage.handleSubmitQuestion calls them *)

\* VALIDATION.SUBREDDIT.PATTERN.test: /^[a-zA-Z0-9_]+$/
MatchesSubredditPattern(s) ==
    /\ Len(s) >= 1
    /\ \A i \in 1..Len(s) : s[i] \in WordChars

\* validateSubreddit(subreddit).isValid
validateSubreddit(name) ==
    LET s == Text(name)
    IN  /\ s # << >>
        /\ Len(s) >= SubredditMinLength
        /\ Len(s) <= SubredditMaxLength
        /\ MatchesSubredditPattern(s)

\* validateQuestion(question).isValid
validateQuestion(question) ==
    LET s == Text(question)
        trimmedQuestion == Trim(s)
    IN  /\ s # << >>
        /\ Len(trimmedQuestion) # 0
        /\ Len(trimmedQuestion) >= QuestionMinLength
        /\ Len(trimmedQuestion) <= QuestionMaxLength

---------------------------------------------------------------------------
(* Snapshot construction: the pure parts of fetchSubredditData,            *)
(* fetchTopSubmissions and fetchComments                                   *)

\* timeMap is an object literal, so besides its three own keys a lookup finds
\* the members it inherits from Object.prototype
ObjectPrototypeKeys ==
    { "constructor", "toString", "toLocaleString", "valueOf", "hasOwnProperty",
      "isPrototypeOf", "propertyIsEnumerable", "__proto__" }

\* `${timeMap[timeframe] || 'day'}`: an inherited member is truthy, and the
\* template literal converts it to a string (the source text of a native
\* function, or '[object Object]' for the prototype)
timeMap(timeframe) ==
    CASE timeframe = "24h"  -> "day"
      [] timeframe = "48h"  -> "day"
      [] timeframe = "week" -> "week"
      [] timeframe = "__proto__" -> "[object Object]"
      [] timeframe = "constructor" -> "function Object() { [native code] }"
      [] timeframe \in ObjectPrototypeKeys ->
            "function " \o timeframe \o "() { [native code] }"
      [] OTHER              -> "day"

\* `Math.max(limit, 1)`, without the ceiling
validatedLimitNoCeiling(limit) == IF limit > 1 THEN limit ELSE 1

\* `Math.min(Math.max(limit, 1), CONFIG.REDDIT.MAX_LIMIT)`
validatedLimit(limit) ==
    LET atLeast == IF limit > 1 THEN limit ELSE 1
    IN  IF atLeast < MaxLimit THEN atLeast ELSE MaxLimit

\* `raw.f || d`: d when the field is absent or holds the falsy value
OrElse(raw, f, falsy, d) ==
    IF f \in raw.absent \/ raw[f] = falsy THEN d ELSE raw[f]

\* the object pushed on posts for a child that is not stickied; created_utc is
\* copied as it is, so it is undefined when the upstream omits it (url and
\* permalink, copied the same way, are left out of the model)
PostOf(raw) ==
    [id           |-> raw.id,
     title        |-> raw.title,
     selftext     |-> OrElse(raw, "selftext", "", ""),
     author       |-> OrElse(raw, "author", "", "[deleted]"),
     score        |-> OrElse(raw, "score", 0, 0),
     num_comments |-> OrElse(raw, "num_comments", 0, 0),
     created_utc  |-> raw.created_utc,
     upvote_ratio |-> OrElse(raw, "upvote_ratio", 0, 0),
     undef        |-> raw.absent \cap {"created_utc"}]

\* the test of the loop over the comment listing
KeepsComment(node) ==
    /\ node.kind = "t1"
    /\ "body" \notin node.absent
    /\ Text(node.body) # << >>
    /\ Text(node.body) # Text("[deleted]")
    /\ Text(node.body) # Text("[removed]")

CommentOf(node) ==
    [id          |-> node.id,
     body        |-> node.body,
     author      |-> OrElse(node, "author", "", "[deleted]"),
     score       |-> OrElse(node, "score", 0, 0),
     created_utc |-> node.created_utc,
     depth       |-> 0,
     undef       |-> node.absent \cap {"created_utc"}]

\* fetchComments without `.slice(0, limit)`
CommentsOfUncapped(route, listing, limit) ==
    LET kept     == SelectSeq(listing, KeepsComment)
        comments == [i \in 1..Len(kept) |-> CommentOf(kept[i])]
    IN  IF route = "ask"
        THEN SelectSeq(comments, LAMBDA c : c.score > 0)
        ELSE comments

\* a variant whose ask-question service drops the comments without a positive
\* score before it cuts the listing to the limit
CommentsOfFilterFirst(route, listing, limit) ==
    LET kept     == SelectSeq(listing, KeepsComment)
        comments == [i \in 1..Len(kept) |-> CommentOf(kept[i])]
    IN  IF route = "ask"
        THEN Slice(SelectSeq(comments, LAMBDA c : c.score > 0), limit)
        ELSE Slice(comments, limit)

\* what fetchComments returns for a listing: the ask-question service drops
\* the comments whose score is not positive, the reddit-data service does not
CommentsOf(route, listing, limit) ==
    LET nodes    == Slice(listing, limit)
        kept     == SelectSeq(nodes, KeepsComment)
        comments == [i \in 1..Len(kept) |-> CommentOf(kept[i])]
    IN  IF route = "ask"
        THEN Slice(SelectSeq(comments, LAMBDA c : c.score > 0), limit)
        ELSE comments

RECURSIVE SortByScoreAscending(_)
SortByScoreAscending(s) ==
    IF s = << >> THEN << >>
    ELSE LET rest == SortByScoreAscending(SubSeq(s, 1, Len(s) - 1))
             e    == s[Len(s)]
             k    == Cardinality({ i \in 1..Len(rest) : rest[i].score <= e.score })
         IN  SubSeq(rest, 1, k) \o << e >> \o SubSeq(rest, k + 1, Len(rest))

\* `.sort((a, b) => b.score - a.score)`: Array.prototype.sort is stable, so an
\* element goes behind those of a higher score and behind those of its own
\* score that came before it
SortByScoreDesc(s) ==
    LET place(i) ==
            1 + Cardinality({ j \in 1..Len(s) :
                    \/ s[j].score > s[i].score
                    \/ s[j].score = s[i].score /\ j < i })
    IN  [k \in 1..Len(s) |-> s[CHOOSE i \in 1..Len(s) : place(i) = k]]

\* the loop over the children, run from position i with ps pushed so far, up
\* to the next await (the comment fetch for the post just pushed) or to its end
RECURSIVE LoopAdvance(_, _, _)
LoopAdvance(ch, i, ps) ==
    IF i > Len(ch) THEN [idx |-> i, posts |-> ps, fetch |-> FALSE]
    ELSE IF ch[i].stickied THEN LoopAdvance(ch, i + 1, ps)
    ELSE LET pushed == Append(ps, PostOf(ch[i]))
         IN  IF Len(pushed) <= TopPosts
             THEN [idx |-> i, posts |-> pushed, fetch |-> TRUE]
             ELSE LoopAdvance(ch, i + 1, pushed)

---------------------------------------------------------------------------
(* extractRedditContent (lib/utils.ts) *)

PostBlock(post) ==
    Text("POST (") \o NumToText(post.score) \o Text(" upvotes): ") \o Text(post.title)
        \o << "\n" >> \o cleanRedditText(Text(post.selftext))

CommentBlock(comment) ==
    Text("COMMENT (") \o NumToText(comment.score) \o Text(" upvotes): ")
        \o cleanRedditText(Text(comment.body))

\* extractRedditContent with `>=` in the two length tests
extractRedditContentAtLeast(ps, cs) ==
    LET usedPosts == Slice(SelectSeq(ps, LAMBDA post :
                              Len(Text(post.selftext)) >= MinPostLength), PromptPosts)
        postContent == Join([i \in 1..Len(usedPosts) |-> PostBlock(usedPosts[i])],
                            Text("\n\n---\n\n"))
        usedComments == Slice(SelectSeq(cs, LAMBDA comment :
                                 /\ Len(Text(comment.body)) >= MinCommentLength
                                 /\ comment.score > 0), PromptComments)
        commentContent == Join([i \in 1..Len(usedComments) |-> CommentBlock(usedComments[i])],
                               Text("\n\n---\n\n"))
    IN  Join(SelectSeq(<< postContent, commentContent >>, LAMBDA part : part # << >>),
             Text("\n\n===POSTS_END===\n\n"))

\* extractRedditContent without the two `.slice(0, n)`
extractRedditContentUncapped(ps, cs) ==
    LET usedPosts == SelectSeq(ps, LAMBDA post : Len(Text(post.selftext)) > MinPostLength)
        postContent == Join([i \in 1..Len(usedPosts) |-> PostBlock(usedPosts[i])],
                            Text("\n\n---\n\n"))
        usedComments == SelectSeq(cs, LAMBDA comment :
                                 /\ Len(Text(comment.body)) > MinCommentLength
                                 /\ comment.score > 0)
        commentContent == Join([i \in 1..Len(usedComments) |-> CommentBlock(usedComments[i])],
                               Text("\n\n---\n\n"))
    IN  Join(SelectSeq(<< postContent, commentContent >>, LAMBDA part : part # << >>),
             Text("\n\n===POSTS_END===\n\n"))

\* extractRedditContent without the `.filter(Boolean)` of the two groups
extractRedditContentUnfiltered(ps, cs) ==
    LET usedPosts == Slice(SelectSeq(ps, LAMBDA post :
                              Len(Text(post.selftext)) > MinPostLength), PromptPosts)
        postContent == Join([i \in 1..Len(usedPosts) |-> PostBlock(usedPosts[i])],
                            Text("\n\n---\n\n"))
        usedComments == Slice(SelectSeq(cs, LAMBDA comment :
                                 /\ Len(Text(comment.body)) > MinCommentLength
                                 /\ comment.score > 0), PromptComments)
        commentContent == Join([i \in 1..Len(usedComments) |-> CommentBlock(usedComments[i])],
                               Text("\n\n---\n\n"))
    IN  Join(<< postContent, commentContent >>, Text("\n\n===POSTS_END===\n\n"))

extractRedditContent(ps, cs) ==
    LET usedPosts == Slice(SelectSeq(ps, LAMBDA post :
                              Len(Text(post.selftext)) > MinPostLength), PromptPosts)
        postContent == Join([i \in 1..Len(usedPosts) |-> PostBlock(usedPosts[i])],
                            Text("\n\n---\n\n"))
        usedComments == Slice(SelectSeq(cs, LAMBDA comment :
                                 /\ Len(Text(comment.body)) > MinCommentLength
                                 /\ comment.score > 0), PromptComments)
        commentContent == Join([i \in 1..Len(usedComments) |-> CommentBlock(usedComments[i])],
                               Text("\n\n---\n\n"))
    IN  Join(SelectSeq(<< postContent, commentContent >>, LAMBDA part : part # << >>),
             Text("\n\n===POSTS_END===\n\n"))

---------------------------------------------------------------------------
(* Error mapping *)

\* handleApiError(error).message, as the tag of the text it picks.  No error
\* of these routes has a `response` field, so the first two tests fail.
handleApiError(e) ==
    IF e.code \in {"ENOTFOUND", "ECONNREFUSED"} THEN "network_error"
    ELSE IF HasMessage(e) /\ Includes(Message(e), Text("OpenAI")) THEN "openai_error"
    ELSE IF HasMessage(e) /\ Message(e) # << >> THEN "message"
    ELSE "generic_error"

\* a variant that tests the authentication case first
StatusAuthFirst(e) ==
    IF e.status = 401 \/ (HasMessage(e) /\ Includes(Message(e), Text("API key"))) THEN 401
    ELSE IF e.code = "insufficient_quota"
            \/ (HasMessage(e) /\ Includes(Message(e), Text("quota"))) THEN 429
    ELSE 500

\* the status the catch block of POST /api/ask-question picks
AskStatus(e) ==
    IF e.code = "insufficient_quota"
       \/ (HasMessage(e) /\ Includes(Message(e), Text("quota"))) THEN 429
    ELSE IF e.status = 401
            \/ (HasMessage(e) /\ Includes(Message(e), Text("API key"))) THEN 401
    ELSE 500

\* the status the catch block of POST /api/reddit-data picks; every error
\* thrown there is an Error instance
DataStatus(e) ==
    IF Includes(Message(e), Text("not found")) THEN 404
    ELSE IF Includes(Message(e), Text("private"))
            \/ Includes(Message(e), Text("banned")) THEN 403
    ELSE IF Includes(Message(e), Text("credentials")) THEN 401
    ELSE 500

\* the envelope of a failure answered without throwing
Refusal(status, error) ==
    [success |-> FALSE, status |-> status, error |-> error, data |-> NoData]

\* the envelope the catch block of a route builds
Caught(route, e) ==
    Refusal(IF route = "ask" THEN AskStatus(e) ELSE DataStatus(e), handleApiError(e))

\* the text of the envelope's error field
ErrorText(o, e) ==
    CASE o.error = "required"      -> Text("Subreddit and question are required")
      [] o.error = "name_required" -> Text("Subreddit name is required")
      [] o.error = "invalid_model" -> Text("Invalid model specified")
      [] o.error = "no_recent"     -> Text("No recent content available for this subreddit")
      [] o.error = "insufficient"  -> Text("Insufficient recent content in this subreddit")
      [] o.error = "openai_error"  -> Text("Failed to generate answer. Please try again.")
      [] o.error = "generic_error" -> Text("Something went wrong. Please try again.")
      [] o.error = "message"       -> Message(e)
      [] OTHER                     -> << >>

\* a variant that only asks for some content
ContentNonEmpty(content) == content # << >>

\* `!redditContent || redditContent.length < 100` fails
ContentSufficient(content) == Len(content) >= MinContentLength

\* a variant that reports the tokens of the answer alone
AIResponseOfCompletionTokens(r, completion) ==
    [kind        |-> "answer",
     answer      |-> IF completion.content = "" THEN "No response generated"
                     ELSE completion.content,
     sources     |-> << [title |-> << "Recent discussions in r/", r.subreddit >>,
                          url   |-> << "https://reddit.com/r/", r.subreddit >>,
                          type  |-> "post"] >>,
     confidence  |-> Confidence,
     model       |-> r.model,
     tokens_used |-> IF completion.total_tokens > 0 THEN completion.total_tokens - 20
                     ELSE completion.total_tokens]

\* the value generateAIResponse returns for a completion
AIResponseOf(r, completion) ==
    [kind        |-> "answer",
     answer      |-> IF completion.content = "" THEN "No response generated"
                     ELSE completion.content,
     sources     |-> << [title |-> << "Recent discussions in r/", r.subreddit >>,
                          url   |-> << "https://reddit.com/r/", r.subreddit >>,
                          type  |-> "post"] >>,
     confidence  |-> Confidence,
     model       |-> r.model,
     tokens_used |-> completion.total_tokens]

---------------------------------------------------------------------------
(* The two routes.  A request runs POST, the fetch of its service          *)
(* (fetchSubredditData for "ask", fetchTopSubmissions for "data") and      *)
(* fetchComments, suspended at each await.                                 *)

Answer(p, o) ==
    /\ out' = [out EXCEPT ![p] = o]
    /\ pc' = [pc EXCEPT ![p] = "responded"]

\* an error thrown in the fetch reaches the catch block of POST
Throw(p, e) ==
    /\ thrown' = [thrown EXCEPT ![p] = e]
    /\ Answer(p, Caught(svc[p], e))

\* the loop resumed at position i with ps and cs collected, run to its next
\* await; at its end the sorted snapshot is returned to POST, which answers
\* (reddit-data) or tests the content and calls generateAIResponse
Advance(p, ch, i, ps, cs) ==
    LET st == LoopAdvance(ch, i, ps)
    IN  /\ idx' = [idx EXCEPT ![p] = st.idx]
        /\ posts' = [posts EXCEPT ![p] = st.posts]
        /\ allComments' = [allComments EXCEPT ![p] = cs]
        /\ IF st.fetch
           THEN /\ pc' = [pc EXCEPT ![p] = "getAccessToken"]
                /\ site' = [site EXCEPT ![p] = "comments"]
                /\ UNCHANGED << redditData, out, calls >>
           ELSE LET data == [posts     |-> SortByScoreDesc(st.posts),
                             comments  |-> SortByScoreDesc(cs),
                             subreddit |-> req[p].subreddit,
                             fetched   |-> TRUE]
                    redditContent == extractRedditContent(data.posts, data.comments)
                IN  /\ redditData' = [redditData EXCEPT ![p] = data]
                    /\ site' = site
                    /\ IF svc[p] = "data"
                       THEN /\ Answer(p, [success |-> TRUE, status |-> 200, error |-> "none",
                                          data |-> [kind      |-> "snapshot",
                                                    posts     |-> data.posts,
                                                    comments  |-> data.comments,
                                                    subreddit |-> req[p].subreddit]])
                            /\ calls' = calls
                       ELSE IF Len(data.posts) = 0
                       THEN /\ Answer(p, Refusal(404, "no_recent"))
                            /\ calls' = calls
                       ELSE IF ~ContentSufficient(redditContent)
                       THEN /\ Answer(p, Refusal(404, "insufficient"))
                            /\ calls' = calls
                       ELSE /\ calls' = [calls EXCEPT ![p] =
                                    Append(@, Request("generation", req[p].model, "",
                                                      Len(redditContent)))]
                            /\ pc' = [pc EXCEPT ![p] = "awaitGeneration"]
                            /\ out' = out

\* POST /api/ask-question up to its first await; max caps the requests of a
\* behaviour
AskPOST(p, Bodies, max) ==
    /\ pc[p] = "idle"
    /\ started < max
    /\ \E body \in Bodies :
        LET model == IF body.model = "omitted" THEN DefaultModel ELSE body.model
        IN  /\ req' = [req EXCEPT ![p] =
                    [subreddit |-> body.subreddit, question |-> body.question,
                     model |-> model, timeframe |-> "24h", limit |-> DefaultLimit,
                     given |-> body.model]]
            /\ IF Text(body.subreddit) = << >> \/ Text(body.question) = << >>
               THEN Answer(p, Refusal(400, "required")) /\ site' = site
               ELSE IF model \notin AllowedModels
               THEN Answer(p, Refusal(400, "invalid_model")) /\ site' = site
               ELSE /\ pc' = [pc EXCEPT ![p] = "getAccessToken"]
                    /\ site' = [site EXCEPT ![p] = "fetch"]
                    /\ out' = out
    /\ svc' = [svc EXCEPT ![p] = "ask"]
    /\ started' = started + 1
    /\ UNCHANGED << tokenVars, tok, thrown, calls, resp, seen,
                    children, idx, posts, allComments, fed, redditData, upstream >>
    /\ UNCHANGED pageVars

\* POST /api/reddit-data up to its first await
DataPOST(p, Names, Timeframes, Limits, max) ==
    /\ pc[p] = "idle"
    /\ started < max
    /\ \E name \in Names, timeframe \in Timeframes, limit \in Limits :
        /\ req' = [req EXCEPT ![p] =
                [subreddit |-> name, question |-> "", model |-> "",
                 timeframe |-> timeframe, limit |-> validatedLimit(limit),
                 given |-> ""]]
        /\ IF Text(name) = << >>
           THEN Answer(p, Refusal(400, "name_required")) /\ site' = site
           ELSE /\ pc' = [pc EXCEPT ![p] = "getAccessToken"]
                /\ site' = [site EXCEPT ![p] = "fetch"]
                /\ out' = out
    /\ svc' = [svc EXCEPT ![p] = "data"]
    /\ started' = started + 1
    /\ UNCHANGED << tokenVars, tok, thrown, calls, resp, seen,
                    children, idx, posts, allComments, fed, redditData, upstream >>
    /\ UNCHANGED pageVars

\* the fetch resumes with the token and requests the top submissions
SendSubmissions(p) ==
    /\ pc[p] = "tokenReturned"
    /\ site[p] = "fetch"
    /\ calls' = [calls EXCEPT ![p] =
            Append(@, Request("submissions", req[p].subreddit,
                              timeMap(req[p].timeframe), req[p].limit))]
    /\ pc' = [pc EXCEPT ![p] = "awaitSubmissions"]
    /\ UNCHANGED << tokenVars, svc, site, tok, thrown, started, resp, seen, fetchVars >>
    /\ UNCHANGED pageVars

\* getAccessToken threw in the fetch: the error goes up to POST
FetchTokenFailed(p) ==
    /\ pc[p] = "tokenThrew"
    /\ site[p] = "fetch"
    /\ Answer(p, Caught(svc[p], thrown[p]))
    /\ UNCHANGED << tokenVars, svc, site, tok, thrown, calls, started, resp, seen,
                    req, children, idx, posts, allComments, fed, redditData, upstream >>
    /\ UNCHANGED pageVars

\* the fetch without the tests of the status against 404 and 403
SubmissionsFailureUnclassified(r, subreddit) ==
    CASE r.kind = "http"    -> MkError("reddit_api", "", r.status)
      [] r.kind = "noshape" -> MkError("no_data", subreddit, 0)
      [] OTHER              -> MkError("fetch", "", 0)

\* the error the fetch throws for an answer that is not a listing
SubmissionsFailure(r, subreddit) ==
    CASE r.kind = "http" /\ r.status = 404 -> MkError("not_found", subreddit, 0)
      [] r.kind = "http" /\ r.status = 403 -> MkError("private", subreddit, 0)
      [] r.kind = "http"                   -> MkError("reddit_api", "", r.status)
      [] r.kind = "noshape"                -> MkError("no_data", subreddit, 0)
      [] OTHER                             -> MkError("fetch", "", 0)

\* the answer to the submissions request
SubmissionsResponse(p, Responses) ==
    /\ pc[p] = "awaitSubmissions"
    /\ \E r \in Responses :
        /\ IF r.kind = "listing"
           THEN /\ children' = [children EXCEPT ![p] = Slice(r.children, req[p].limit)]
                /\ Advance(p, children'[p], 1, << >>, << >>)
                /\ thrown' = thrown
           ELSE /\ Throw(p, SubmissionsFailure(r, req[p].subreddit))
                /\ UNCHANGED << children, idx, posts, allComments, redditData, calls, site >>
        /\ upstream' = [upstream EXCEPT ![p] =
                [kind |-> r.kind, status |-> r.status, usage |-> NoUsage]]
    /\ UNCHANGED << tokenVars, svc, tok, started, resp, seen, req, fed >>
    /\ UNCHANGED pageVars

\* fetchComments resumes with the token and requests the comments of the
\* post just pushed
SendComments(p) ==
    /\ pc[p] = "tokenReturned"
    /\ site[p] = "comments"
    /\ calls' = [calls EXCEPT ![p] =
            Append(@, Request("comments", posts[p][Len(posts[p])].id, "", CommentLimit))]
    /\ pc' = [pc EXCEPT ![p] = "awaitComments"]
    /\ UNCHANGED << tokenVars, svc, site, tok, thrown, started, resp, seen, fetchVars >>
    /\ UNCHANGED pageVars

\* the error fetchComments throws for an answer that is not a success
CommentsFailure(r) ==
    IF r.kind = "http" THEN MkError("comments", "", r.status) ELSE MkError("fetch", "", 0)

\* the error leaves fetchComments and the fetch, and reaches POST
fetchComments_rethrow(p, e) ==
    /\ Throw(p, e)
    /\ UNCHANGED << idx, posts, allComments, redditData, calls, site >>

\* a variant that asks again for the comments of the same post
fetchComments_retry(p, e) ==
    /\ thrown' = [thrown EXCEPT ![p] = NoError]
    /\ pc' = [pc EXCEPT ![p] = "getAccessToken"]
    /\ UNCHANGED << idx, posts, allComments, redditData, out, calls, site >>

\* the catch block of fetchComments: the error is logged and [] is returned,
\* so the loop of the fetch goes on with the comments it has
fetchComments_catch(p, e) ==
    /\ thrown' = [thrown EXCEPT ![p] = NoError]
    /\ Advance(p, children[p], idx[p] + 1, posts[p], allComments[p])

\* getAccessToken threw in fetchComments
CommentsTokenFailed(p) ==
    /\ pc[p] = "tokenThrew"
    /\ site[p] = "comments"
    /\ fetchComments_catch(p, thrown[p])
    /\ UNCHANGED << tokenVars, svc, tok, started, resp, seen, req, children, fed, upstream >>
    /\ UNCHANGED pageVars

\* the answer to a comments request: a failure, a body without
\* data[1].data.children, or a listing of nodes; budget caps the nodes the
\* upstream returns in the course of one request to a route
CommentsResponse(p, Responses, budget) ==
    /\ pc[p] = "awaitComments"
    /\ \E r \in Responses :
        /\ r.kind = "listing" => fed[p] + Len(r.children) <= budget
        /\ IF r.kind \in {"http", "neterr"}
           THEN fetchComments_catch(p, CommentsFailure(r))
           ELSE LET comments == IF r.kind = "listing"
                                THEN CommentsOf(svc[p], r.children, CommentLimit)
                                ELSE << >>
                IN  /\ Advance(p, children[p], idx[p] + 1, posts[p],
                               allComments[p] \o comments)
                    /\ thrown' = thrown
        /\ fed' = [fed EXCEPT ![p] = IF r.kind = "listing" THEN @ + Len(r.children) ELSE @]
    /\ UNCHANGED << tokenVars, svc, tok, started, resp, seen, req, children, upstream >>
    /\ UNCHANGED pageVars

\* the answer to the chat completion request of generateAIResponse
GenerationResponse(p, Outcomes) ==
    /\ pc[p] = "awaitGeneration"
    /\ \E g \in Outcomes :
        IF g.kind = "completion"
        THEN /\ Answer(p, [success |-> TRUE, status |-> 200, error |-> "none",
                           data |-> AIResponseOf(req[p], g)])
             /\ thrown' = thrown
             /\ upstream' = [upstream EXCEPT ![p].usage = g.total_tokens]
        ELSE Throw(p, g.error) /\ upstream' = upstream
    /\ UNCHANGED << tokenVars, svc, site, tok, calls, started, resp, seen,
                    req, children, idx, posts, allComments, fed, redditData >>
    /\ UNCHANGED pageVars

\* the response is sent; the locals of the request are gone
Finish(p) ==
    /\ pc[p] = "responded"
    /\ pc' = [pc EXCEPT ![p] = "idle"]
    /\ site' = [site EXCEPT ![p] = "caller"]
    /\ tok' = [tok EXCEPT ![p] = NoToken]
    /\ thrown' = [thrown EXCEPT ![p] = NoError]
    /\ calls' = [calls EXCEPT ![p] = << >>]
    /\ resp' = [resp EXCEPT ![p] = NoResp]
    /\ seen' = [seen EXCEPT ![p] = NoSeen]
    /\ req' = [req EXCEPT ![p] = NoReq]
    /\ children' = [children EXCEPT ![p] = << >>]
    /\ idx' = [idx EXCEPT ![p] = 0]
    /\ posts' = [posts EXCEPT ![p] = << >>]
    /\ allComments' = [allComments EXCEPT ![p] = << >>]
    /\ fed' = [fed EXCEPT ![p] = 0]
    /\ redditData' = [redditData EXCEPT ![p] = NoSnapshot]
    /\ out' = [out EXCEPT ![p] = NoOut]
    /\ upstream' = [upstream EXCEPT ![p] = NoUpstream]
    /\ UNCHANGED << tokenVars, svc, started >>
    /\ UNCHANGED pageVars

---------------------------------------------------------------------------
(* Inputs: request bodies and upstream answers *)

\* the server process that runs the requests of Spec and SpecFetch
Workers == {"worker"}

\* sequences without repetition of at most n elements of S
SeqsUpTo(S, n) ==
    UNION { { f \in [1..k -> S] : \A i, j \in 1..k : i # j => f[i] # f[j] } : k \in 0..n }

\* a child of the submissions listing (child.data)
Submission(id, selftext, score, stickied, absent) ==
    [id |-> id, title |-> "Title", selftext |-> selftext, author |-> "alice",
     score |-> score, num_comments |-> 2, created_utc |-> 1000, upvote_ratio |-> 90,
     stickied |-> stickied, absent |-> absent]

\* a child of the comment listing (kind, and comment.data)
CommentNode(kind, id, body, score, absent) ==
    [kind |-> kind, id |-> id, body |-> body, author |-> "alice", score |-> score,
     created_utc |-> 1000, absent |-> absent]

S_long == Submission("s1", "b80", 10, FALSE, {})
S_removed == Submission("s2", "[removed]", 50, FALSE, {})
S_deleted == Submission("s3", "[deleted]", 5, FALSE, {"author"})
S_short == Submission("s4", "b51", 10, FALSE, {})
S_stickied == Submission("s5", "b80", 99, TRUE, {})

N_good == CommentNode("t1", "c1", "c31", 7, {})
N_tie == CommentNode("t1", "c2", "c30", 7, {"author"})
N_top == CommentNode("t1", "c3", "c31", 9, {})
N_zero == CommentNode("t1", "c4", "c31", 0, {})
N_deleted == CommentNode("t1", "c5", "[deleted]", 9, {})
N_removed == CommentNode("t1", "c6", "[removed]", 8, {})
N_more == CommentNode("more", "c7", "", 0, {"body", "score"})

Listing(ch) == [kind |-> "listing", status |-> 200, children |-> ch]

Failures(statuses) ==
    { [kind |-> "http", status |-> st, children |-> << >>] : st \in statuses }
    \cup { [kind |-> "noshape", status |-> 200, children |-> << >>],
           [kind |-> "neterr", status |-> NoStatus, children |-> << >>] }

\* request bodies of Spec
AskBody(subreddit, question, model) ==
    [subreddit |-> subreddit, question |-> question, model |-> model]
AskBodies ==
    { AskBody("tech", "What is new?", m) : m \in {"omitted", "gpt-3.5-turbo", "gpt-4"} }
    \cup { AskBody(name, "What is new?", "omitted") : name \in {"", "bad name", "a51"} }
    \cup { AskBody("tech", q, "omitted") : q \in {"", "hi", "    hi    ", "q501"} }
DataNames == {"", "tech"}
DataTimeframes == {"24h", "48h", "week", "month", "constructor"}
DataLimits == {-3, 0, 2, 150}

\* upstream answers of Spec
SubmissionAnswers ==
    Failures({404, 403, 500})
    \cup { Listing(ch) : ch \in { << >>, << S_stickied >>, << S_long >>, << S_short >>,
                                   << S_removed, S_long >> } }
CommentAnswers ==
    Failures({500}) \cup { Listing(ch) : ch \in { << >>, << N_good >>, << N_more, N_zero >> } }

\* outcomes of the chat completion request
Completions ==
    { [kind |-> "completion", content |-> c, total_tokens |-> n] :
        c \in {"An answer", ""}, n \in {120} }
    \cup { [kind |-> "completion", content |-> "An answer", total_tokens |-> n] :
             n \in {0, NoUsage} }
GenerationErrors ==
    { [kind |-> "error",
       error |-> [tmpl |-> m[1], arg |-> m[2], num |-> 0, code |-> c, status |-> st]] :
        m \in { << "literal", "You exceeded your current quota" >>,
                << "literal", "Incorrect API key provided" >>,
                << "literal", "The server had an error" >>,
                << "no_message", "" >> },
        c \in {"insufficient_quota", "none"},
        st \in {401, NoStatus} }
GenerationOutcomes == Completions \cup GenerationErrors

\* the completion of SpecFetch
OneCompletion ==
    { [kind |-> "completion", content |-> "An answer", total_tokens |-> 120] }

\* upstream answers of SpecFetch
FetchSubmissionAnswers ==
    { Listing(ch) : ch \in SeqsUpTo({S_long, S_removed, S_deleted, S_short, S_stickied}, MaxPosts) }
FetchCommentAnswers ==
    Failures({500})
    \cup { Listing(ch) :
             ch \in { << N_good >>, << N_tie >>, << N_top >>, << N_zero >>,
                      << N_deleted >>, << N_removed, N_good >>, << N_good, N_tie >>,
                      << N_tie, N_top >>, << N_more, N_top, N_good >> } }

\* upstream answers of SpecVolume: listings longer than the caps of the fetch
\* and of the prompt.  The submissions come by rising score, by falling score,
\* or mixed with a stickied one, bodies of 50 and of 51 characters, an
\* empty body and a child without author, score and created_utc.
PostId(i) == "p" \o ToString(i)
RisingSubmissions ==
    [i \in 1..MaxSubmissions |-> Submission(PostId(i), "b80", i, FALSE, {})]
FallingSubmissions ==
    [i \in 1..MaxSubmissions |->
        Submission(PostId(i), "b80", MaxSubmissions + 1 - i, FALSE, {})]
MixedSubmissions ==
    [i \in 1..MaxSubmissions |->
        CASE i = 2 -> Submission(PostId(i), "b80", 40, TRUE, {})
          [] i = 3 -> Submission(PostId(i), "d50", 30, FALSE, {})
          [] i = 4 -> Submission(PostId(i), "b51", 20, FALSE, {})
          [] i = 5 -> Submission(PostId(i), "b80", 0, FALSE,
                                 {"author", "score", "created_utc"})
          [] i = 6 -> Submission(PostId(i), "", 60, FALSE, {})
          [] OTHER -> Submission(PostId(i), "b80", i, FALSE, {})]
VolumeSubmissionAnswers ==
    { [kind |-> "http", status |-> 500, children |-> << >>] }
    \cup { Listing(ch) : ch \in {RisingSubmissions, FallingSubmissions, MixedSubmissions} }
VolumeLimits == {7, DefaultLimit}

CommentId(i) == "k" \o ToString(i)
LongComments == [i \in 1..MaxListing |-> CommentNode("t1", CommentId(i), "c31", i, {})]
ShortComments ==
    << CommentNode("t1", "k20", "c31", 0, {}),
       CommentNode("t1", "k21", "e30", 20, {}),
       CommentNode("more", "k22", "", 0, {"body", "score"}),
       CommentNode("t1", "k23", "c31", 0, {"score"}),
       CommentNode("t1", "k24", "c31", 30, {}) >>
VolumeCommentAnswers ==
    { [kind |-> "http", status |-> 500, children |-> << >>],
      Listing(LongComments), Listing(ShortComments) }

\* outcomes of the chat completion request of SpecVolume
VolumeOutcomes ==
    OneCompletion
    \cup { [kind |-> "error",
           error |-> [tmpl |-> "literal", arg |-> "The server had an error", num |-> 0,
                      code |-> "none", status |-> NoStatus]] }

---------------------------------------------------------------------------
(* HomePage: the submission of a question and the saved answers *)

\* CONFIG.STORAGE.MAX_SAVED_ANSWERS
MaxSavedAnswers == 50

\* the subreddit the page asks about
currentSubreddit(st) ==
    IF st.selectedSubreddit = "custom" THEN st.customSubreddit ELSE st.selectedSubreddit

\* `Boolean(currentSubreddit && appState.question && !appState.isLoading)`,
\* which QuestionInput takes to enable its submit control
canSubmit(st) ==
    /\ Text(currentSubreddit(st)) # << >>
    /\ Text(st.question) # << >>
    /\ ~st.isLoading

\* a variant that keeps the answer on display while the next one loads
SubmittedKeepingAnswer(st) == [st EXCEPT !.isLoading = TRUE]

\* `setAppState(prev => ({ ...prev, isLoading: true, currentAnswer: null }))`
Submitted(st) == [st EXCEPT !.isLoading = TRUE, !.currentAnswer = NoData]

\* the state after try, catch and finally of handleSubmitQuestion, for the
\* response r (unparsable, or an envelope)
Settled(st, r) ==
    IF r.kind = "json" /\ r.body.success
    THEN [st EXCEPT !.currentAnswer = r.body.data, !.isLoading = FALSE]
    ELSE [st EXCEPT !.isLoading = FALSE]

\* a variant that keeps every saved answer
SavedUncapped(list, entry) == << entry >> \o list

\* `[shareableAnswer, ...prev.savedAnswers.slice(0, MAX_SAVED_ANSWERS - 1)]`
Saved(list, entry) == << entry >> \o Slice(list, MaxSavedAnswers - 1)

\* the answers k earlier saves have left in localStorage, the latest first
PriorAnswers(k) ==
    [i \in 1..k |-> [id |-> k + 1 - i, question |-> "What is new?",
                     subreddit |-> "AskReddit", answer |-> "An answer",
                     timestamp |-> k + 1 - i]]

\* the responses of /api/ask-question to a body: the route refuses a model it
\* does not allow, and otherwise answers or fails; a proxy may answer with a
\* body that is not JSON
RepliesTo(body) ==
    { [kind |-> "notjson", body |-> NoOut],
      [kind |-> "json", body |-> Refusal(500, "generic_error")] }
    \cup IF body.model \notin AllowedModels
         THEN { [kind |-> "json", body |-> Refusal(400, "invalid_model")] }
         ELSE { [kind |-> "json", body |-> Refusal(404, "no_recent")] }
              \cup { [kind |-> "json",
                      body |-> [success |-> TRUE, status |-> 200, error |-> "none",
                                data |-> AIResponseOf(body, g)]] : g \in OneCompletion }

\* the two effects of the first render: the saved answers are loaded, and
\* written back when there are some
Mount ==
    /\ page.pc = "unmounted"
    /\ appState' = [appState EXCEPT !.savedAnswers = storage]
    /\ page' = [page EXCEPT !.pc = "idle"]
    /\ UNCHANGED << storage, posted, tokenVars, callVars, fetchVars >>

handleQuestionChange(Questions) ==
    /\ page.pc # "unmounted"
    /\ \E question \in Questions \ {appState.question} :
          appState' = [appState EXCEPT !.question = question]
    /\ UNCHANGED << storage, page, posted, tokenVars, callVars, fetchVars >>

handleSubredditChange(Subreddits) ==
    /\ page.pc # "unmounted"
    /\ \E subreddit \in Subreddits \ {appState.selectedSubreddit} :
          appState' = [appState EXCEPT
                          !.selectedSubreddit = subreddit,
                          !.customSubreddit = IF subreddit = "custom" THEN @ ELSE ""]
    /\ UNCHANGED << storage, page, posted, tokenVars, callVars, fetchVars >>

\* the input of a custom name, which SubredditSelector shows for `custom`
handleCustomSubredditChange(Names) ==
    /\ page.pc # "unmounted"
    /\ appState.selectedSubreddit = "custom"
    /\ \E customSubreddit \in Names \ {appState.customSubreddit} :
          appState' = [appState EXCEPT !.customSubreddit = customSubreddit]
    /\ UNCHANGED << storage, page, posted, tokenVars, callVars, fetchVars >>

\* onChange of the model select
handleModelChange(Models) ==
    /\ page.pc # "unmounted"
    /\ \E model \in Models \ {appState.selectedModel} :
          appState' = [appState EXCEPT !.selectedModel = model]
    /\ UNCHANGED << storage, page, posted, tokenVars, callVars, fetchVars >>

\* handleSubmitQuestion up to `await fetch(...)`; max caps the requests of a
\* behaviour
handleSubmitQuestion(max) ==
    /\ page.pc # "unmounted"
    /\ canSubmit(appState)
    /\ Len(posted) < max
    /\ IF ~validateSubreddit(currentSubreddit(appState))
       THEN /\ page' = [page EXCEPT !.toast = "invalid_subreddit"]
            /\ UNCHANGED << appState, posted >>
       ELSE IF ~validateQuestion(appState.question)
       THEN /\ page' = [page EXCEPT !.toast = "invalid_question"]
            /\ UNCHANGED << appState, posted >>
       ELSE /\ appState' = Submitted(appState)
            /\ posted' = Append(posted, [subreddit |-> currentSubreddit(appState),
                                          question |-> appState.question,
                                          model |-> appState.selectedModel])
            /\ page' = [page EXCEPT !.pc = "awaitFetch"]
    /\ UNCHANGED << storage, tokenVars, callVars, fetchVars >>

\* fetch settles: it rejects, and catch and finally run, or it resolves with
\* a response, whose body is then read
fetchSettles ==
    /\ page.pc = "awaitFetch"
    /\ \/ /\ appState' = Settled(appState, [kind |-> "rejected", body |-> NoOut])
          /\ page' = [page EXCEPT !.pc = "idle", !.toast = "failed"]
       \/ \E r \in RepliesTo(posted[Len(posted)]) :
             /\ page' = [page EXCEPT !.pc = "awaitJson", !.reply = r]
             /\ appState' = appState
    /\ UNCHANGED << storage, posted, tokenVars, callVars, fetchVars >>

\* response.json() settles, and the rest of try, catch and finally run
jsonSettles ==
    /\ page.pc = "awaitJson"
    /\ appState' = Settled(appState, page.reply)
    /\ page' = [page EXCEPT
                   !.pc = "idle",
                   !.reply = [kind |-> "none", body |-> NoOut],
                   !.toast = IF page.reply.kind = "json" /\ page.reply.body.success
                             THEN "generated" ELSE "failed"]
    /\ UNCHANGED << storage, posted, tokenVars, callVars, fetchVars >>

\* handleSaveAnswer, whose button is rendered while there is an answer, and
\* the effect that writes the saved answers; max caps the clock of the browser
handleSaveAnswer(max) ==
    /\ page.pc # "unmounted"
    /\ appState.currentAnswer # NoData
    /\ page.clock < max
    /\ LET shareableAnswer ==
               [id |-> page.clock + 1, question |-> appState.question,
                subreddit |-> currentSubreddit(appState),
                answer |-> appState.currentAnswer.answer,
                timestamp |-> page.clock + 1]
       IN  /\ appState' = [appState EXCEPT
                               !.savedAnswers = Saved(@, shareableAnswer)]
           /\ storage' = appState'.savedAnswers
    /\ page' = [page EXCEPT !.clock = @ + 1, !.toast = "saved"]
    /\ UNCHANGED << posted, tokenVars, callVars, fetchVars >>

---------------------------------------------------------------------------
(* Specifications *)

\* time passes while no request runs, or while one waits for the upstream
\* the instants at which a token fetched at a multiple of the window expires
Expiries == { k * TokenTTL : k \in 1..MaxPeriods }

Wait ==
    /\ \A p \in Workers : pc[p] \in {"idle", "awaitSubmissions"}
    /\ Tick(Expiries)

Init == InitOf(Workers, {<< >>})

Next ==
    \/ Wait
    \/ \E p \in Workers : AskPOST(p, AskBodies, MaxRequests)
    \/ \E p \in Workers : DataPOST(p, DataNames, DataTimeframes, DataLimits, MaxRequests)
    \/ \E p \in Workers : getAccessToken_begin(p)
    \/ \E p \in Workers : getAccessToken_response(p)
    \/ \E p \in Workers : SendSubmissions(p)
    \/ \E p \in Workers : FetchTokenFailed(p)
    \/ \E p \in Workers : SubmissionsResponse(p, SubmissionAnswers)
    \/ \E p \in Workers : SendComments(p)
    \/ \E p \in Workers : CommentsTokenFailed(p)
    \/ \E p \in Workers : CommentsResponse(p, CommentAnswers, MaxComments)
    \/ \E p \in Workers : GenerationResponse(p, GenerationOutcomes)
    \/ \E p \in Workers : Finish(p)

\* Requests to the two routes, served one after the other, over every request
\* body and every kind of upstream answer.
Spec == Init /\ [][Next]_vars

NextFetch ==
    \/ \E p \in Workers : AskPOST(p, {AskBody("tech", "What is new?", "omitted")}, 1)
    \/ \E p \in Workers : DataPOST(p, {"tech"}, {"24h"}, {DefaultLimit}, 1)
    \/ \E p \in Workers : getAccessToken_begin(p)
    \/ \E p \in Workers : getAccessToken_response(p)
    \/ \E p \in Workers : SendSubmissions(p)
    \/ \E p \in Workers : FetchTokenFailed(p)
    \/ \E p \in Workers : SubmissionsResponse(p, FetchSubmissionAnswers)
    \/ \E p \in Workers : SendComments(p)
    \/ \E p \in Workers : CommentsResponse(p, FetchCommentAnswers, MaxComments)
    \/ \E p \in Workers : GenerationResponse(p, OneCompletion)
    \/ \E p \in Workers : Finish(p)

\* One well-formed request over every upstream listing of submissions within
\* the bounds, with the clock standing still (so that the token fetched for the
\* submissions is still valid when the comments are fetched).
SpecFetch == Init /\ [][NextFetch]_vars

NextVolume ==
    \/ \E p \in Workers : AskPOST(p, {AskBody("tech", "What is new?", "omitted")}, 1)
    \/ \E p \in Workers : DataPOST(p, {"tech"}, {"24h"}, VolumeLimits, 1)
    \/ \E p \in Workers : getAccessToken_begin(p)
    \/ \E p \in Workers : getAccessToken_response(p)
    \/ \E p \in Workers : SendSubmissions(p)
    \/ \E p \in Workers : FetchTokenFailed(p)
    \/ \E p \in Workers : SubmissionsResponse(p, VolumeSubmissionAnswers)
    \/ \E p \in Workers : SendComments(p)
    \/ \E p \in Workers : CommentsResponse(p, VolumeCommentAnswers, TopPosts * MaxListing)
    \/ \E p \in Workers : GenerationResponse(p, VolumeOutcomes)
    \/ \E p \in Workers : Finish(p)

\* One well-formed request over upstream listings longer than the caps of the
\* program: more submissions than the posts whose comments are fetched and
\* than the posts of a prompt, more comments than the limit of a comment
\* request.
SpecVolume == Init /\ [][NextVolume]_vars

---------------------------------------------------------------------------
(* Two requests that differ in the name of the subreddit *)

\* Two requests served at the same time, to either route, for subreddits
\* named by ordinary words, while the upstream fails or lists nothing.
NextNames ==
    \/ \E p \in Callers :
          AskPOST(p, { AskBody(name, "What is new?", "omitted") :
                          name \in {"tech", "quota", "private", "credentials", "banned"} },
                  NumCallers)
    \/ \E p \in Callers :
          DataPOST(p, {"tech", "quota", "private", "credentials", "banned"}, {"24h"},
                   {DefaultLimit}, NumCallers)
    \/ \E p \in Callers : getAccessToken_begin(p)
    \/ \E p \in Callers : getAccessToken_response(p)
    \/ \E p \in Callers : SendSubmissions(p)
    \/ \E p \in Callers : FetchTokenFailed(p)
    \/ \E p \in Callers :
          SubmissionsResponse(p, Failures({404, 403, 500}) \cup {Listing(<< >>)})
    \/ \E p \in Callers : Finish(p)

SpecNames == InitToken /\ [][NextNames]_vars

---------------------------------------------------------------------------
(* The two routes over the same upstream *)

\* the upstream's answer to the comments request for a post, the same for
\* both routes: a listing longer than the limit with an unscored comment
\* among its first ten, one of scored comments, a failure, a listing of
\* short, unscored and scored comments, or one comment
TwinComments(id) ==
    CASE id = "p1" ->
           Listing([i \in 1..MaxListing |->
                       CommentNode("t1", CommentId(i), "c31", IF i = 3 THEN 0 ELSE i, {})])
      [] id = "p2" -> Listing(LongComments)
      [] id = "p3" -> [kind |-> "http", status |-> 500, children |-> << >>]
      [] id = "p4" -> Listing(ShortComments)
      [] OTHER -> Listing(<< N_good >>)

\* A request to each route at the same time; the upstream answers a comments
\* request by the post it is for.
NextTwin ==
    \/ \E p \in Callers : AskPOST(p, {AskBody("tech", "What is new?", "omitted")}, NumCallers)
    \/ \E p \in Callers : DataPOST(p, {"tech"}, {"24h"}, {DefaultLimit}, NumCallers)
    \/ \E p \in Callers : getAccessToken_begin(p)
    \/ \E p \in Callers : getAccessToken_response(p)
    \/ \E p \in Callers : SendSubmissions(p)
    \/ \E p \in Callers : FetchTokenFailed(p)
    \/ \E p \in Callers :
          SubmissionsResponse(p, { Listing(ch) :
              ch \in {Slice(RisingSubmissions, 1), FallingSubmissions, MixedSubmissions} })
    \/ \E p \in Callers : SendComments(p)
    \/ \E p \in Callers :
          CommentsResponse(p, IF posts[p] = << >> THEN {}
                              ELSE {TwinComments(posts[p][Len(posts[p])].id)},
                           TopPosts * MaxListing)
    \/ \E p \in Callers : GenerationResponse(p, OneCompletion)
    \/ \E p \in Callers : Finish(p)

SpecTwin == InitToken /\ [][NextTwin]_vars

---------------------------------------------------------------------------
(* The page *)

\* The page over valid and invalid questions and names, both models and
\* every kind of response.
NextPage ==
    \/ Mount
    \/ handleQuestionChange({"", "hi", "What is new?"})
    \/ handleSubredditChange({"AskReddit", "custom"})
    \/ handleCustomSubredditChange({"bad name", "tech"})
    \/ handleModelChange({"gpt-4", "gpt-3.5-turbo"})
    \/ handleSubmitQuestion(MaxSubmits)
    \/ fetchSettles
    \/ jsonSettles
    \/ handleSaveAnswer(1)

SpecPage == Init /\ [][NextPage]_vars

\* the event loop runs the continuation of a settled promise
SpecPageLive == SpecPage /\ WF_vars(jsonSettles)

\* The page of a user who saves answers, in a browser without saved answers
\* or with 49 of them.
NextHistory ==
    \/ Mount
    \/ handleQuestionChange({"What is new?"})
    \/ handleModelChange({"gpt-3.5-turbo"})
    \/ handleSubmitQuestion(MaxSubmits)
    \/ fetchSettles
    \/ jsonSettles
    \/ handleSaveAnswer(MaxSaves)

SpecHistory == InitOf(Workers, {<< >>, PriorAnswers(MaxSavedAnswers - 1)}) /\ [][NextHistory]_vars

---------------------------------------------------------------------------
(* Properties of the token cache (SpecToken) *)

InCall(p) == pc[p] \in {"awaitToken", "tokenReturned", "tokenThrew"}

TokenRequests(p) == Len(SelectSeq(calls[p], LAMBDA c : c.kind = "token"))

\* C6: after a successful token fetch at T the expiry is T + 50 minutes; a
\* call whose cache test happens at t with T <= t < T + 50 returns the cached
\* token and sends nothing to the token endpoint; a call at t >= T + 50 sends
\* a new token request.  (T is the time of the last successful fetch.)
C6_ExpiryWindow ==
    /\ \A s \in Services :
          lastStore[s] # NoStore => tokenExpiry[s] = lastStore[s].at + TokenTTL
    /\ \A p \in Callers :
          InCall(p) =>
            /\ seen[p].window = "inside" =>
                  /\ TokenRequests(p) = 0
                  /\ pc[p] = "tokenReturned"
                  /\ tok[p] = seen[p].token
            /\ seen[p].window = "outside" => TokenRequests(p) = 1

\* C7: a call that needs a refresh sends exactly one token request; when the
\* answer is a non-success status, or a success without the token field, the
\* call throws the authentication error, which carries the upstream status
\* (or the missing-token message), and sends no second request.
C7_SingleRequestNoRetry ==
    \A p \in Callers :
        /\ TokenRequests(p) <= 1
        /\ pc[p] = "awaitToken" => TokenRequests(p) = 1
        /\ pc[p] = "tokenThrew" =>
              /\ TokenRequests(p) = 1
              /\ tok[p] = NoToken
              /\ StartsWithAt(Message(thrown[p]), 1,
                              Text("Failed to authenticate with Reddit API: "))
              /\ resp[p].kind = "http" =>
                    Includes(Message(thrown[p]),
                             NumToText(resp[p].status) \o << " " >> \o StatusText(resp[p].status))
              /\ resp[p].kind = "notoken" =>
                    Includes(Message(thrown[p]),
                             Text("No access token received from Reddit API"))
        /\ (pc[p] = "tokenReturned" /\ TokenRequests(p) = 1) => resp[p].kind = "token"

C7_Witness ==
    /\ \E p \in Callers : pc[p] = "tokenThrew" /\ resp[p].kind = "notoken"
    /\ \E p \in Callers : pc[p] = "tokenThrew" /\ resp[p].kind = "http"

\* C8: when calls race on an empty or expired cache, each call that returns
\* hands back the token the endpoint issued to it, and once no call is in
\* flight the cache holds the token and the expiry of the last successful
\* writer.
C8_ConcurrentRefresh ==
    /\ \A p \in Callers :
          (pc[p] = "tokenReturned" /\ TokenRequests(p) = 1) =>
              tok[p] # NoToken /\ tok[p] = resp[p].token
    /\ (\A p \in Callers : pc[p] # "awaitToken") =>
          \A s \in Services :
              lastStore[s] # NoStore =>
                  /\ accessToken[s] = lastStore[s].token
                  /\ tokenExpiry[s] = lastStore[s].at + TokenTTL

---------------------------------------------------------------------------
(* Properties of the routes (Spec) *)

Sent(p, kind) == \E i \in 1..Len(calls[p]) : calls[p][i].kind = kind

AskRunning(p) == svc[p] = "ask" /\ pc[p] # "idle"

\* C1: a request to POST /api/ask-question whose forum name fails
\* ^[A-Za-z0-9_]{1,50}$ is answered with status 400 and sends no network
\* request at all (no token, submissions, comments or generation request).
C1_InvalidNameRefused ==
    \A p \in Workers :
        (AskRunning(p) /\ ~validateSubreddit(req[p].subreddit)) =>
            /\ calls[p] = << >>
            /\ pc[p] = "responded"
            /\ ~out[p].success
            /\ out[p].status = 400

\* C2: a request to POST /api/ask-question whose question, trimmed, is
\* shorter than 5 or longer than 500 characters is answered with status 400
\* before any network request is sent.
C2_InvalidQuestionRefused ==
    \A p \in Workers :
        (AskRunning(p) /\ ~validateQuestion(req[p].question)) =>
            /\ calls[p] = << >>
            /\ pc[p] = "responded"
            /\ ~out[p].success
            /\ out[p].status = 400

\* the chat completion request of this request failed
GenerationFailed(p) ==
    /\ pc[p] = "responded"
    /\ Sent(p, "generation")
    /\ thrown[p] # NoError

QuotaType(e) ==
    e.code = "insufficient_quota" \/ (HasMessage(e) /\ Includes(Message(e), Text("quota")))

AuthType(e) ==
    e.status = 401 \/ (HasMessage(e) /\ Includes(Message(e), Text("API key")))

\* C3: on both routes the status of a failure envelope is fixed by the
\* category of the failure: a refused request 400, a forum the upstream does
\* not know (404 on the submissions request) 404, a private or banned forum
\* (403) 403, a failure of the token request 401, and a failure of the
\* generation that is neither of the quota nor of the authentication type 500.
C3_StatusByCategory ==
    \A p \in Workers :
        (pc[p] = "responded" /\ ~out[p].success) =>
            /\ out[p].error \in {"required", "name_required", "invalid_model"} =>
                  out[p].status = 400
            /\ thrown[p].tmpl = "not_found" => out[p].status = 404
            /\ thrown[p].tmpl = "private" => out[p].status = 403
            /\ thrown[p].tmpl \in {"auth_oauth", "auth_notoken", "auth_fetch"} =>
                  out[p].status = 401
            /\ (GenerationFailed(p) /\ ~QuotaType(thrown[p]) /\ ~AuthType(thrown[p])) =>
                  out[p].status = 500

\* C4: when the chat completion request fails, the envelope reports no
\* success and its status is 429 for a failure of the quota type (code
\* 'insufficient_quota' or a message with 'quota'), else 401 for one of the
\* authentication type (status 401 or a message with 'API key'), else 500.
C4_GenerationFailureMapping ==
    \A p \in Workers :
        GenerationFailed(p) =>
            /\ ~out[p].success
            /\ out[p].status = IF QuotaType(thrown[p]) THEN 429
                               ELSE IF AuthType(thrown[p]) THEN 401
                               ELSE 500

C4_Witness ==
    \E p \in Workers :
        /\ GenerationFailed(p)
        /\ thrown[p].code = "insufficient_quota"
        /\ thrown[p].status = 401
        /\ out[p].status = 429

\* the prompt text of the snapshot the fetch returned
PromptLength(p) == Len(extractRedditContent(redditData[p].posts, redditData[p].comments))

\* C5: POST /api/ask-question sends the chat completion request only when
\* the snapshot has at least one post and the prompt text has at least 100
\* characters; with no post, or a prompt text that is empty or shorter, it
\* answers with the insufficient-content failure and sends no such request.
C5_GenerationNeedsContent ==
    \A p \in Workers :
        LET length == PromptLength(p)
        IN  svc[p] = "ask" =>
                /\ Sent(p, "generation") =>
                      /\ redditData[p].fetched
                      /\ Len(redditData[p].posts) >= 1
                      /\ length >= 100
                /\ (redditData[p].fetched
                    /\ (Len(redditData[p].posts) = 0 \/ length < 100)) =>
                      /\ pc[p] = "responded"
                      /\ ~out[p].success
                      /\ out[p].error \in {"no_recent", "insufficient"}
                      /\ ~Sent(p, "generation")

C5_Witness ==
    \E p \in Workers :
        /\ svc[p] = "ask"
        /\ redditData[p].fetched
        /\ Len(redditData[p].posts) >= 1
        /\ PromptLength(p) > 0
        /\ PromptLength(p) < 100
        /\ out[p].error = "insufficient"

---------------------------------------------------------------------------
(* Properties of the snapshot (SpecFetch) *)

Scores(s) == [i \in 1..Len(s) |-> s[i].score]

\* sorted is collected rearranged by descending score, equals in the order of
\* collected
StableDescending(sorted, collected) ==
    /\ Len(sorted) = Len(collected)
    /\ \E f \in Permutations(1..Len(collected)) :
          /\ \A i \in 1..Len(sorted) : sorted[i] = collected[f[i]]
          /\ \A i, j \in 1..Len(sorted) :
                i < j => \/ sorted[i].score > sorted[j].score
                         \/ sorted[i].score = sorted[j].score /\ f[i] < f[j]

\* C9: the posts of a returned snapshot are the collected posts by descending
\* score, and its comments the comments of all per-post fetches by descending
\* score; elements of equal score keep the order in which the upstream gave
\* them.  The reddit-data route answers with exactly these.
C9_SortedByScore ==
    \A p \in Workers :
        redditData[p].fetched =>
            /\ StableDescending(redditData[p].posts, posts[p])
            /\ StableDescending(redditData[p].comments, allComments[p])
            /\ (svc[p] = "data" /\ pc[p] = "responded") =>
                  /\ out[p].success
                  /\ out[p].data.posts = redditData[p].posts
                  /\ out[p].data.comments = redditData[p].comments

C9_Witness ==
    \E p \in Workers :
        /\ redditData[p].fetched
        /\ Scores(posts[p]) = << 10, 50, 5 >>
        /\ Scores(redditData[p].posts) = << 50, 10, 5 >>
        /\ Scores(allComments[p]) = << 7, 9, 7 >>
        /\ redditData[p].comments[2].id = allComments[p][1].id
        /\ redditData[p].comments[3].id = allComments[p][3].id

IsSentinel(text) == Text(text) = Text("[removed]") \/ Text(text) = Text("[deleted]")

\* C10: no post and no comment of a returned snapshot has the body text
\* '[removed]' or '[deleted]'.
C10_NoSentinelRetained ==
    \A p \in Workers :
        redditData[p].fetched =>
            /\ \A i \in 1..Len(redditData[p].posts) :
                  ~IsSentinel(redditData[p].posts[i].selftext)
            /\ \A i \in 1..Len(redditData[p].comments) :
                  ~IsSentinel(redditData[p].comments[i].body)

---------------------------------------------------------------------------
(* Properties of the fetch over long listings (SpecVolume, Spec, SpecFetch) *)

\* the requests of kind `kind` in the log of the current call
RequestsOf(p, kind) == { i \in 1..Len(calls[p]) : calls[p][i].kind = kind }

\* the ids of the posts of ps that fewer than n posts of ps outscore
HighestScoring(ps, n) ==
    { ps[i].id : i \in { i \in 1..Len(ps) :
        Cardinality({ j \in 1..Len(ps) : ps[j].score > ps[i].score }) < n } }

\* C11: in one run of the fetch, every post for which a comments request is
\* issued is among the 5 highest-scoring posts of the snapshot the run returns,
\* in whatever order the upstream lists the submissions.
C11_CommentsOnlyForTopByScore ==
    \A p \in Workers :
        redditData[p].fetched =>
            \A i \in RequestsOf(p, "comments") :
                calls[p][i].arg \in HighestScoring(redditData[p].posts, TopPosts)

\* a per-post comment fetch of the current call is about to end
CommentFetchPending(p) ==
    \/ pc[p] = "awaitComments"
    \/ pc[p] = "tokenThrew" /\ site[p] = "comments"

IsPrefix(s, t) == Len(s) <= Len(t) /\ SubSeq(t, 1, Len(s)) = s

\* the posts the loop of the fetch retains from the children of a listing
RetainedPosts(ch) ==
    LET kept == SelectSeq(ch, LAMBDA c : ~c.stickied)
    IN  [i \in 1..Len(kept) |-> PostOf(kept[i])]

\* C12: once the submissions request has succeeded, no outcome of a per-post
\* comment fetch (an answer that is not a success, a rejected fetch, a body
\* without the comment listing, a token failure) fails the fetch: the posts
\* and the comments collected so far are kept, nothing is thrown, and when the
\* loop ends the snapshot with all the retained posts is returned, so that
\* reddit-data answers 200 with it and ask-question goes on to the prompt.
C12_CommentFailureSwallowed ==
    [][\A p \in Workers :
        (upstream[p].kind = "listing" /\ CommentFetchPending(p) /\ pc'[p] # pc[p]) =>
            /\ IsPrefix(posts[p], posts'[p])
            /\ IsPrefix(allComments[p], allComments'[p])
            /\ thrown'[p] = NoError
            /\ pc'[p] \in {"getAccessToken", "responded", "awaitGeneration"}
            /\ pc'[p] # "getAccessToken" =>
                  /\ redditData'[p].fetched
                  /\ redditData'[p].posts = SortByScoreDesc(RetainedPosts(children[p]))
                  /\ redditData'[p].comments = SortByScoreDesc(allComments'[p])
                  /\ svc[p] = "data" =>
                        /\ out'[p].success /\ out'[p].status = 200
                        /\ out'[p].data.posts = redditData'[p].posts
                        /\ out'[p].data.comments = redditData'[p].comments
                  /\ (svc[p] = "ask" /\ pc'[p] = "responded") =>
                        out'[p] = Refusal(404, "insufficient")]_vars

\* a snapshot with posts was returned although the token request made for a
\* comment fetch failed: the log of the call ends with that token request
C12_Witness ==
    \E p \in Workers :
        /\ redditData[p].fetched
        /\ pc[p] = "responded" /\ out[p].success
        /\ Len(redditData[p].posts) >= 1
        /\ Len(calls[p]) >= 3
        /\ calls[p][Len(calls[p])].kind = "token"
        /\ calls[p][Len(calls[p]) - 1].kind \in {"submissions", "comments"}

\* C13: no snapshot returned by the fetch, of the ask-question service or of
\* the reddit-data service, holds a comment whose score is zero or negative;
\* every comment it holds is a top-level node with a body.
C13_NoUnscoredComment ==
    \A p \in Workers :
        redditData[p].fetched =>
            \A i \in 1..Len(redditData[p].comments) :
                LET c == redditData[p].comments[i]
                IN  /\ c.score > 0
                    /\ c.depth = 0
                    /\ Text(c.body) # << >>

\* C14: a per-post comment fetch returns at most 10 comments, comments are
\* requested for at most 5 posts in one run of the fetch, and so a snapshot
\* holds at most 50 comments, however many submissions and comment nodes the
\* upstream lists.
C14_CommentVolumeBounded ==
    \A p \in Workers :
        /\ Cardinality(RequestsOf(p, "comments")) <= TopPosts
        /\ Len(allComments[p]) <= CommentLimit * Cardinality(RequestsOf(p, "comments"))
        /\ redditData[p].fetched =>
              /\ Len(redditData[p].comments) = Len(allComments[p])
              /\ Len(redditData[p].comments) <= 50

\* a snapshot of 50 comments, from more than 5 posts and from comment
\* listings longer than the comments kept of them
C14_Witness ==
    \E p \in Workers :
        /\ redditData[p].fetched
        /\ Len(redditData[p].comments) = 50
        /\ Len(redditData[p].posts) > TopPosts
        /\ fed[p] > Len(allComments[p])

\* C15: when the submissions request is answered with a status that is not a
\* success, the fetch throws by that status: 404 "Subreddit r/<name> not
\* found", 403 "Subreddit r/<name> is private or banned", any other
\* "Reddit API error: <status> <reason phrase>"; no comments request is issued
\* and no snapshot is returned.
C15_SubmissionsFailureClassified ==
    \A p \in Workers :
        (upstream[p].kind = "http" /\ pc[p] = "responded") =>
            LET st   == upstream[p].status
                name == Text("Subreddit r/") \o Text(req[p].subreddit)
            IN  /\ st = 404 => Message(thrown[p]) = name \o Text(" not found")
                /\ st = 403 => Message(thrown[p]) = name \o Text(" is private or banned")
                /\ st \notin {404, 403} =>
                      Message(thrown[p]) =
                          Text("Reddit API error: ") \o NumToText(st) \o << " " >>
                              \o StatusText(st)
                /\ RequestsOf(p, "comments") = {}
                /\ ~redditData[p].fetched
                /\ ~out[p].success

\* the submissions request was answered 403 and the fetch threw for it
C15_Witness ==
    \E p \in Workers :
        /\ pc[p] = "responded"
        /\ upstream[p].kind = "http" /\ upstream[p].status = 403
        /\ Includes(Message(thrown[p]), Text("private"))
        /\ Sent(p, "submissions")

\* C16: from a successful submissions response the fetch drops every stickied
\* child and keeps every other one of the first `limit` children as a post; in
\* a kept post a missing author is '[deleted]' and a missing score,
\* num_comments, upvote_ratio or created_utc is 0, so that no field of a
\* retained post is undefined.
C16_PostsDefaulted ==
    \A p \in Workers :
        redditData[p].fetched =>
            LET kept == SelectSeq(children[p], LAMBDA c : ~c.stickied)
            IN  /\ Len(children[p]) <= req[p].limit
                /\ Len(posts[p]) = Len(kept)
                /\ Len(redditData[p].posts) = Len(kept)
                /\ \A i \in 1..Len(kept) :
                      LET raw  == kept[i]
                          post == posts[p][i]
                      IN  /\ post.id = raw.id
                          /\ "author" \in raw.absent => post.author = "[deleted]"
                          /\ "score" \in raw.absent => post.score = 0
                          /\ "num_comments" \in raw.absent => post.num_comments = 0
                          /\ "upvote_ratio" \in raw.absent => post.upvote_ratio = 0
                          /\ "created_utc" \in raw.absent => post.created_utc = 0
                          /\ post.undef = {}

---------------------------------------------------------------------------
(* Properties of the submissions request (Spec) *)

\* C17: whatever integer limit a request supplies (0, a negative one, one
\* above 100), the limit of the submissions request sent upstream is within
\* 1..100 and at most that many children are processed; the request is served
\* to its end.  The reddit-data route clamps the limit of the body, the
\* ask-question route always passes 25.
C17_LimitClamped ==
    \A p \in Workers :
        /\ \A i \in RequestsOf(p, "submissions") :
              /\ calls[p][i].n \in 1..MaxLimit
              /\ calls[p][i].n = req[p].limit
              /\ svc[p] = "ask" => calls[p][i].n = DefaultLimit
        /\ pc[p] # "idle" => req[p].limit \in 1..MaxLimit
        /\ Len(children[p]) <= req[p].limit

\* a limit above the ceiling was supplied, and the request went upstream with
\* the ceiling
C17_Witness ==
    \E p \in Workers :
        /\ svc[p] = "data"
        /\ \E i \in RequestsOf(p, "submissions") : calls[p][i].n = MaxLimit
        /\ pc[p] = "responded"

\* C18: the `t` parameter of the submissions request is determined by the
\* timeframe of the request: "day" for 24h, "day" for 48h, "week" for week,
\* and "day" for every other value.
C18_TimeframeMapped ==
    \A p \in Workers :
        \A i \in RequestsOf(p, "submissions") :
            calls[p][i].t = CASE req[p].timeframe = "24h"  -> "day"
                              [] req[p].timeframe = "48h"  -> "day"
                              [] req[p].timeframe = "week" -> "week"
                              [] OTHER                     -> "day"

---------------------------------------------------------------------------
(* Properties of the prompt text (SpecVolume) *)

\* the text extractRedditContent builds from the snapshot the fetch returned
PromptOf(p) == extractRedditContent(redditData[p].posts, redditData[p].comments)

\* the positions of content at which a block with the given head starts
BlockStarts(content, head) ==
    { i \in 1..Len(content) : StartsWithAt(content, i, head) }

\* block is the whole block that starts at position m of content
BlockAt(content, m, block) ==
    /\ StartsWithAt(content, m, block)
    /\ m + Len(block) <= Len(content) => content[m + Len(block)] = "\n"

Rendered(content, head, block) ==
    \E m \in BlockStarts(content, head) : BlockAt(content, m, block)

\* how many of the first i elements of s pass the test
RankAmong(s, i, Test(_)) == Cardinality({ j \in 1..i : Test(s[j]) })

LongPost(post) == Len(Text(post.selftext)) > 50
LongComment(comment) == Len(Text(comment.body)) > 30 /\ comment.score > 0

\* C19: the prompt text selects by strict length thresholds.  A post whose
\* body has 50 characters or fewer is not rendered, one of 51 or more is (while
\* it is among the first 10 such posts); a comment whose body has 30
\* characters or fewer is not rendered, one of 31 or more with a positive
\* score is (while it is among the first 15 such comments).
C19_StrictThresholds ==
    \A p \in Workers :
        redditData[p].fetched =>
            LET content  == PromptOf(p)
                ps       == redditData[p].posts
                cs       == redditData[p].comments
            IN  /\ \A i \in 1..Len(ps) :
                      IF LongPost(ps[i])
                      THEN RankAmong(ps, i, LongPost) <= 10 =>
                              Rendered(content, Text("POST ("), PostBlock(ps[i]))
                      ELSE ~Rendered(content, Text("POST ("), PostBlock(ps[i]))
                /\ \A i \in 1..Len(cs) :
                      IF Len(Text(cs[i].body)) <= 30
                      THEN ~Rendered(content, Text("COMMENT ("), CommentBlock(cs[i]))
                      ELSE (cs[i].score > 0 /\ RankAmong(cs, i, LongComment) <= 15) =>
                              Rendered(content, Text("COMMENT ("), CommentBlock(cs[i]))

\* the prompt of a request was built from a snapshot with a post body of
\* exactly 50 and one of exactly 51 characters, and a comment body of exactly
\* 30 and one of exactly 31 characters
C19_Witness ==
    \E p \in Workers :
        /\ redditData[p].fetched
        /\ svc[p] = "ask" /\ pc[p] = "awaitGeneration"
        /\ \E i, j \in 1..Len(redditData[p].posts) :
              /\ Len(Text(redditData[p].posts[i].selftext)) = 50
              /\ Len(Text(redditData[p].posts[j].selftext)) = 51
        /\ \E i, j \in 1..Len(redditData[p].comments) :
              /\ Len(Text(redditData[p].comments[i].body)) = 30
              /\ Len(Text(redditData[p].comments[j].body)) = 31

\* the elements of s that pass the test, in the order of s
Qualifying(s, Test(_)) == SelectSeq(s, Test)

\* the blocks of content with the given head are, in their order, the blocks
\* of the first n elements of qualifying
FirstRendered(content, head, qualifying, n, Block(_)) ==
    LET starts == BlockStarts(content, head)
    IN  /\ Cardinality(starts) <= n
        /\ Cardinality(starts) = IF Len(qualifying) < n THEN Len(qualifying) ELSE n
        /\ \A m \in starts :
              BlockAt(content, m, Block(qualifying[Cardinality({ j \in starts : j <= m })]))

\* C20: whatever the sizes of the snapshot, the prompt text has at most 10
\* post blocks and at most 15 comment blocks; the post blocks are those of the
\* first 10 posts with a body longer than 50 characters, in the order of the
\* snapshot; the comment blocks are those of the first 15 comments with a body
\* longer than 30 characters and a positive score, in the order of the
\* snapshot; no comment whose score is zero or negative is rendered.
C20_PromptCapped ==
    \A p \in Workers :
        redditData[p].fetched =>
            LET content == PromptOf(p)
                cs      == redditData[p].comments
            IN  /\ FirstRendered(content, Text("POST ("),
                                 Qualifying(redditData[p].posts, LongPost), 10, PostBlock)
                /\ FirstRendered(content, Text("COMMENT ("),
                                 Qualifying(cs, LongComment), 15, CommentBlock)
                /\ \A i \in 1..Len(cs) :
                      cs[i].score <= 0 =>
                          ~Rendered(content, Text("COMMENT ("), CommentBlock(cs[i]))

\* a prompt of exactly 10 post blocks and 15 comment blocks, built from a
\* snapshot with more than 10 posts and more than 15 comments that pass the
\* tests
C20_Witness ==
    \E p \in Workers :
        /\ redditData[p].fetched
        /\ svc[p] = "ask" /\ pc[p] = "awaitGeneration"
        /\ Len(Qualifying(redditData[p].posts, LongPost)) > 10
        /\ Len(Qualifying(redditData[p].comments, LongComment)) > 15
        /\ Cardinality(BlockStarts(PromptOf(p), Text("POST ("))) = 10
        /\ Cardinality(BlockStarts(PromptOf(p), Text("COMMENT ("))) = 15


---------------------------------------------------------------------------
(* Properties of the shape of the prompt text (SpecFetch) *)

Separator == Text("\n\n---\n\n")
PostsEnd == Text("\n\n===POSTS_END===\n\n")

\* how many blocks the prompt has for n elements that pass the tests
BlocksFor(n, cap) == IF n < cap THEN n ELSE cap

\* C21: the prompt text is empty exactly when no post and no comment
\* qualifies.  Otherwise the post blocks come first, one separator between two
\* of them, then the comment blocks, one separator between two of them, and
\* the posts-end marker stands between the two groups: it occurs exactly once
\* when both groups have a block and not at all otherwise.
C21_PromptJoined ==
    \A p \in Workers :
        redditData[p].fetched =>
            LET content  == PromptOf(p)
                np       == BlocksFor(Len(Qualifying(redditData[p].posts, LongPost)), 10)
                nc       == BlocksFor(Len(Qualifying(redditData[p].comments, LongComment)), 15)
                marks    == BlockStarts(content, PostsEnd)
                seps     == BlockStarts(content, Separator)
                pstarts  == BlockStarts(content, Text("POST ("))
                cstarts  == BlockStarts(content, Text("COMMENT ("))
            IN  /\ (content = << >>) <=> (np = 0 /\ nc = 0)
                /\ Cardinality(pstarts) = np
                /\ Cardinality(cstarts) = nc
                /\ Cardinality(marks) = IF np > 0 /\ nc > 0 THEN 1 ELSE 0
                /\ Cardinality(seps) = (IF np > 0 THEN np - 1 ELSE 0)
                                       + (IF nc > 0 THEN nc - 1 ELSE 0)
                /\ np > 0 => 1 \in pstarts
                /\ (np = 0 /\ nc > 0) => 1 \in cstarts
                /\ \A m \in marks :
                      /\ \A i \in pstarts : i < m
                      /\ \A i \in cstarts : i > m
                      /\ m + Len(PostsEnd) \in cstarts
                      /\ Cardinality({ i \in seps : i < m }) = np - 1
                /\ \A i \in seps :
                      \/ i + Len(Separator) \in pstarts
                      \/ i + Len(Separator) \in cstarts

\* a prompt with two post blocks and two comment blocks is about to be sent
\* to the generation
C21_Witness ==
    \E p \in Workers :
        /\ redditData[p].fetched
        /\ svc[p] = "ask" /\ pc[p] = "awaitGeneration"
        /\ Cardinality(BlockStarts(PromptOf(p), Text("POST ("))) = 2
        /\ Cardinality(BlockStarts(PromptOf(p), Text("COMMENT ("))) = 2
        /\ Cardinality(BlockStarts(PromptOf(p), PostsEnd)) = 1


---------------------------------------------------------------------------
(* Properties of the answer (Spec) *)

\* the request of p was answered with a generated answer
Answered(p) ==
    /\ svc[p] = "ask"
    /\ pc[p] = "responded"
    /\ out[p].success

\* C23: every successful answer has exactly one source, whose url is the
\* front page of the subreddit as the request names it; its confidence is the
\* fixed 0.85; its model is the model of the request (the default one when
\* the request names none); and its tokens_used is the total_tokens the
\* completion reported.
C23_AnswerFields ==
    \A p \in Workers :
        Answered(p) =>
            LET data == out[p].data
            IN  /\ data.kind = "answer"
                /\ Len(data.sources) = 1
                /\ data.sources[1].url = << "https://reddit.com/r/", req[p].subreddit >>
                /\ data.confidence = 85
                /\ data.model = req[p].model
                /\ data.model \in {"gpt-4o-mini", "gpt-3.5-turbo"}
                /\ upstream[p].usage # NoUsage => data.tokens_used = upstream[p].usage

\* an answer to a request that names gpt-3.5-turbo, whose completion
\* reported 120 tokens
C23_Witness ==
    \E p \in Workers :
        /\ Answered(p)
        /\ req[p].model = "gpt-3.5-turbo"
        /\ upstream[p].usage = 120
        /\ out[p].data.tokens_used = 120


---------------------------------------------------------------------------
(* Properties of the order of the requests (SpecVolume) *)

\* the positions of the requests of a kind in a log of requests
Positions(log, kind) == { i \in 1..Len(log) : log[i].kind = kind }

\* a log of one attempt: at most one submissions request, then at most 5
\* comment requests, each for another post, then at most one generation call
SingleAttempt(log) ==
    LET subs == Positions(log, "submissions")
        coms == Positions(log, "comments")
        gens == Positions(log, "generation")
    IN  /\ Cardinality(subs) <= 1
        /\ Cardinality(coms) <= 5
        /\ Cardinality(gens) <= 1
        /\ \A i, j \in coms : i # j => log[i].arg # log[j].arg
        /\ \A i \in subs : \A j \in coms \cup gens : i < j
        /\ \A i \in coms : \A j \in gens : i < j
        /\ coms \cup gens # {} => subs # {}

\* C24: a request to /api/ask-question is one attempt.  At every step its
\* requests so far are at most one for the submissions, then at most 5 for
\* comments, no two of them for the same post, then at most one generation
\* call; a request refused with 400 has sent nothing; and from the step that
\* answers the request, with a failure or with the answer, nothing more is
\* sent.
C24_SingleAttempt ==
    [][\A p \in Workers :
          svc'[p] = "ask" =>
              /\ SingleAttempt(calls'[p])
              /\ (pc'[p] = "responded" /\ out'[p].status = 400) =>
                    \A i \in 1..Len(calls'[p]) : calls'[p][i].kind = "token"
              /\ (pc[p] # "responded" /\ pc'[p] = "responded" /\ ~out'[p].success) =>
                    calls'[p] = calls[p]
              /\ pc[p] = "responded" => calls'[p] = << >>]_vars

\* a request that asked for the submissions, for the comments of 5 posts and
\* for the generation, which failed, was answered with the failure
C24_Witness ==
    \E p \in Workers :
        /\ svc[p] = "ask" /\ pc[p] = "responded" /\ ~out[p].success
        /\ out[p].status = 500
        /\ Cardinality(Positions(calls[p], "submissions")) = 1
        /\ Cardinality(Positions(calls[p], "comments")) = 5
        /\ Cardinality(Positions(calls[p], "generation")) = 1


---------------------------------------------------------------------------
(* Properties of the model choice (Spec) *)

\* C25: a request to /api/ask-question whose body names a model other than
\* gpt-4o-mini and gpt-3.5-turbo is answered with status 400 before any
\* request is sent: none to the token endpoint, none to the forum, none for
\* the generation.  A request whose body names no model runs with gpt-4o-mini,
\* which is one of the two, and is not refused for its model.
C25_ModelChoice ==
    \A p \in Workers :
        (svc[p] = "ask" /\ pc[p] # "idle") =>
            /\ req[p].given \notin {"omitted", "gpt-4o-mini", "gpt-3.5-turbo"} =>
                  /\ pc[p] = "responded"
                  /\ ~out[p].success
                  /\ out[p].status = 400
                  /\ calls[p] = << >>
            /\ req[p].given = "omitted" =>
                  /\ req[p].model = "gpt-4o-mini"
                  /\ out[p].error # "invalid_model"
                  /\ \A i \in 1..Len(calls[p]) :
                        calls[p][i].kind = "generation" => calls[p][i].arg = "gpt-4o-mini"

\* a request that names gpt-4 was refused with `Invalid model specified`
C25_Witness ==
    \E p \in Workers :
        /\ svc[p] = "ask" /\ pc[p] = "responded"
        /\ req[p].given = "gpt-4"
        /\ Text(req[p].subreddit) # << >> /\ Text(req[p].question) # << >>
        /\ out[p] = Refusal(400, "invalid_model")
        /\ calls[p] = << >>



---------------------------------------------------------------------------
(* Properties of the saved answers (SpecHistory) *)

\* C26: the saved answers are at most 50.  A save puts the new answer first
\* and keeps the answers saved before it in their order behind it; when there
\* are 50 already, the one it drops is the last of them, which is the oldest,
\* and the 49 newer ones are kept.  What is saved is what localStorage holds.
C26_SavedAnswersCapped ==
    [][LET old == appState.savedAnswers
           new == appState'.savedAnswers
       IN  /\ Len(new) <= 50
           /\ \A i, j \in 1..Len(new) : i < j => new[i].timestamp > new[j].timestamp
           /\ page'.clock # page.clock =>
                 /\ new[1].id = page'.clock
                 /\ new[1].answer = appState.currentAnswer.answer
                 /\ Len(new) = IF Len(old) < 50 THEN Len(old) + 1 ELSE 50
                 /\ \A i \in 2..Len(new) : new[i] = old[i - 1]
                 /\ Len(old) = 50 =>
                       { old[i].id : i \in 1..50 } \ { new[i].id : i \in 1..50 }
                           = { old[50].id }
                 /\ storage' = new]_vars

\* 51 answers were saved one after the other: the first of them is gone, and
\* the other 50 are there, the latest first
C26_Witness ==
    /\ Len(appState.savedAnswers) = 50
    /\ appState.savedAnswers[1].id = 51
    /\ appState.savedAnswers[50].id = 2
    /\ storage = appState.savedAnswers


---------------------------------------------------------------------------
(* Properties of the submission of a question (SpecPageLive) *)

\* handleSubmitQuestion is suspended at one of its awaits
Submitting == page.pc \in {"awaitFetch", "awaitJson"}

\* the response that was read reports success
Succeeded(r) == r.kind = "json" /\ r.body.success

\* C30: a submission of a valid subreddit and a valid question sends one
\* request, sets isLoading and clears currentAnswer; one of an invalid
\* subreddit or question changes neither and sends nothing.  isLoading holds
\* exactly while the request is under way: when it has settled, by an answer,
\* by a failure or by a response that cannot be read, isLoading is false
\* again, and a response that arrived is always dealt with.  After the request
\* currentAnswer is set exactly if the response reported success, so after a
\* failure no answer is on display.
C30_SubmitLifecycle ==
    /\ [][/\ posted' # posted =>
                /\ posted' = Append(posted, posted'[Len(posted')])
                /\ validateSubreddit(posted'[Len(posted')].subreddit)
                /\ validateQuestion(posted'[Len(posted')].question)
                /\ appState'.isLoading
                /\ appState'.currentAnswer = NoData
          /\ (page'.toast \in {"invalid_subreddit", "invalid_question"}
              /\ page'.toast # page.toast) =>
                /\ appState' = appState
                /\ posted' = posted
          /\ (page.pc = "awaitJson" /\ page'.pc = "idle") =>
                (appState'.currentAnswer # NoData <=> Succeeded(page.reply))
          /\ (page.pc = "awaitFetch" /\ page'.pc = "idle") =>
                appState'.currentAnswer = NoData]_vars
    /\ [](appState.isLoading <=> Submitting)
    /\ [](appState.isLoading => appState.currentAnswer = NoData)
    /\ (page.pc = "awaitJson" ~> ~appState.isLoading)

\* the page displayed an answer, which was saved; the next request failed,
\* and the page is idle without an answer
C30_Witness ==
    /\ Len(appState.savedAnswers) = 1
    /\ Len(posted) = 2
    /\ page.pc = "idle" /\ page.toast = "failed"
    /\ ~appState.isLoading
    /\ appState.currentAnswer = NoData


---------------------------------------------------------------------------
(* Properties of the status across subreddit names (SpecNames) *)

\* C27: the status of a response does not depend on the name of the
\* subreddit.  Two requests to the same route whose submissions requests got
\* the same answer from the upstream (the same status, the same shape) are
\* answered with the same status, whatever the two names are.
C27_StatusIgnoresName ==
    \A p, q \in Callers :
        (/\ pc[p] = "responded" /\ pc[q] = "responded"
         /\ svc[p] = svc[q]
         /\ upstream[p].kind # "none"
         /\ upstream[p] = upstream[q]) =>
            out[p].status = out[q].status


---------------------------------------------------------------------------
(* Properties of the two routes over the same upstream (SpecTwin) *)

\* p ran the fetch of the given route to its end
Fetched(p, route) == svc[p] = route /\ redditData[p].fetched

\* C28: the snapshot of /api/ask-question, whose comments have a positive
\* score, and the snapshot of /api/reddit-data, which keeps every comment,
\* give the same prompt text when they were built from the same submissions
\* and the same comment listings.
C28_SamePrompt ==
    \A p, q \in Callers :
        (Fetched(p, "ask") /\ Fetched(q, "data") /\ children[p] = children[q]) =>
            PromptOf(p) = PromptOf(q)

\* the two routes have built their snapshots from the same submissions with
\* comments; the one of /api/reddit-data has more comments than the other,
\* one of them without a positive score
C28_Witness ==
    \E p, q \in Callers :
        /\ Fetched(p, "ask") /\ Fetched(q, "data")
        /\ children[p] = children[q]
        /\ Len(redditData[p].comments) > 15
        /\ Len(redditData[q].comments) > Len(redditData[p].comments)
        /\ \E i \in 1..Len(redditData[q].comments) : redditData[q].comments[i].score <= 0
        /\ PromptOf(p) = PromptOf(q)


---------------------------------------------------------------------------
(* Properties of the token cache under failures (SpecToken) *)

\* the step is the failure of the refresh of p: a status that is not a
\* success, a rejected fetch, or a success without access_token
RefreshFails(p) == pc[p] = "awaitToken" /\ pc'[p] = "tokenThrew"

\* C29: whenever the cache holds a token and an expiry, the token is the one
\* of the last successful refresh and the expiry is the time of that refresh
\* plus 50 minutes.  A refresh that fails leaves the expiry as it was.  A call
\* that returns without a token request returns the token of a successful
\* refresh made less than 50 minutes before its cache test.
C29_CacheUnderFailures ==
    /\ [](\A s \in Services :
              (accessToken[s] # NoToken /\ tokenExpiry[s] # NoExpiry) =>
                  /\ lastStore[s] # NoStore
                  /\ accessToken[s] = lastStore[s].token
                  /\ tokenExpiry[s] = lastStore[s].at + 50)
    /\ [](\A p \in Callers :
              (pc[p] = "tokenReturned" /\ TokenRequests(p) = 0) =>
                  /\ tok[p] # NoToken
                  /\ tok[p] = seen[p].token
                  /\ seen[p].window = "inside")
    /\ [][\A p \in Callers :
              RefreshFails(p) =>
                  /\ tokenExpiry' = tokenExpiry
                  /\ lastStore' = lastStore
                  /\ \A s \in Services : accessToken'[s] \in {accessToken[s], NoToken}]_vars

\* a refresh was answered with a success without access_token while the
\* cache held a token: the token is gone, the expiry stands
C29_Witness ==
    \E p \in Callers :
        /\ pc[p] = "tokenThrew"
        /\ resp[p].kind = "notoken"
        /\ lastStore[svc[p]] # NoStore
        /\ accessToken[svc[p]] = NoToken
        /\ tokenExpiry[svc[p]] = lastStore[svc[p]].at + 50

============================================================================
